---- MODULE Spec2Model ----
(***************************************************************************)
(* Blog refresh system: the structure analyzer, the proposal generator     *)
(* and the link evaluator, modelled from the JavaScript sources.           *)
(*                                                                         *)
(* The repository carries three maintained variants of the analyzer and    *)
(* of the proposal generator:                                              *)
(*   "guarded"  backend/helpers/aiAnalyzer.js lines 1-235   (60% guardrail)*)
(*   "relaxed"  backend/helpers/aiAnalyzer.js lines 236-494 (confidence    *)
(*              filter, guardrail commented out, merge cap 3)              *)
(*   "strict"   unnamed/part_000 lines 1-247 (exactly two sections, bounds *)
(*              and duplicate filters, fail-closed)                        *)
(* Section indices are 0-based as in the code; section i is sections[i+1]. *)
(***************************************************************************)
EXTENDS Integers, Sequences, FiniteSets, Bags, TLC

VARIABLES
    variant,      \* which analyzer/generator module is loaded
    sections,     \* sequence of section headings
    reply,        \* the generative model's reply to the analysis prompt
    linkEvals,    \* link evaluations handed to generateProposals
    pc,           \* "start" | "analyzed" | "done"
    call,         \* "none" | "pipeline" | "direct"
    analysis,     \* value returned (or error thrown) by analyzeStructure
    genInput,     \* the structureAnalysis argument of generateProposals
    proposals,    \* value returned (or error thrown) by generateProposals
    links,        \* the argument of evaluateLinks
    lcPc,         \* evaluateLinks: "idle" | "loop" | "head" | "get" | "returned" | "threw"
    pending,      \* the probe awaiting its response
    probes,       \* every probe issued so far, with its outcome
    evaluations,  \* the evaluations array of evaluateLinks
    request,      \* the HTTP request being served by the controller
    srvPc,        \* controller: "idle" | "received" | "linked" | "analyzed" | "calling" | "responded"
    calls,        \* how often each outbound call or helper has been invoked
    dom,          \* applyChanges: the anchors of the parsed document $
    applyReply,   \* applyChanges: the generative model's reply
    applyResult,  \* value returned (or error thrown) by applyChanges
    response,     \* the HTTP response sent by the controller
    uiApp,        \* which App component is mounted: "app.jsx" | "part_003"
    page,         \* the blog post behind the typed URL
    ui,           \* the useState values of App, and whether App is still mounted
    net,          \* requests (and the dynamic import) issued by App, not yet settled
    timers,       \* pending setTimeout(() => analyzeBlog(content), 500) callbacks
    modelCalls,   \* generative-model calls the backend issued for the first workflow
    restarted,    \* handleReset has run: the first workflow is over
    applies,      \* apply-changes requests sent in this workflow
    lastAnalysis  \* number of the analyze-blog request whose response App took last

aVars == <<variant, sections, reply, linkEvals, pc, call, analysis, genInput, proposals>>
lVars == <<links, lcPc, pending, probes, evaluations>>
sVars == <<request, srvPc, calls, dom, applyReply, applyResult, response>>
uVars == <<uiApp, page, ui, net, timers, modelCalls, restarted, applies, lastAnalysis>>
vars == <<aVars, lVars, sVars, uVars>>

\* ------------------------------------------------------------------ bounds
MaxSections == 4
MaxSugg == 2
MaxEvals == 2
MaxLinks == 22
MaxAnchors == 2
MaxInner == 3
MaxBodyLinks == 1
MaxPending == 2
MaxApplies == 1

\* ----------------------------------------------------------- small helpers
Range(s) == {s[i] : i \in 1..Len(s)}

SeqsUpTo(S, k) == UNION {[1..m -> S] : m \in 0..k}

\* JavaScript truthiness of a string-valued field ("" stands for a missing,
\* null or empty value, all of which are falsy).
Truthy(str) == str # ""

Variants == {"guarded", "relaxed", "strict"}

\* ------------------------------------------------------------------ inputs
HeadingPool == <<"Introduction", "Main Topic", "Conclusion", "", "Appendix", "Notes">>

Sugg(a, k, aff, nh, c) ==
    [action |-> a, affKind |-> k, affectedSections |-> aff,
     newHeading |-> nh, rationale |-> "why", confidenceLevel |-> c]

\* Raw suggestions a model reply can carry.  affKind "absent" is a suggestion
\* without an affectedSections array; confidenceLevel "none" is an unlabeled
\* suggestion; newHeading "" is a missing heading.
SuggestionPool ==
    { Sugg("merge",   "array",  <<0, 1>>,       "Combined", "high"),
      Sugg("merge",   "array",  <<1, 0>>,       "Combined", "medium"),
      Sugg("merge",   "array",  <<0, 1>>,       "",         "low"),
      Sugg("merge",   "array",  <<2, 3>>,       "",         "high"),
      Sugg("merge",   "array",  <<0, 1, 2>>,    "Combined", "medium"),
      Sugg("merge",   "array",  <<0, 1, 2, 3>>, "Combined", "high"),
      Sugg("merge",   "array",  <<>>,           "",         "high"),
      Sugg("merge",   "absent", <<>>,           "Combined", "high"),
      Sugg("merge",   "array",  <<0, 7>>,       "",         "high"),
      Sugg("merge",   "array",  <<1>>,          "Renamed",  "high"),
      Sugg("rewrite", "array",  <<1>>,          "",         "medium"),
      Sugg("keep",    "array",  <<0, 1>>,       "",         "high"),
      Sugg("remove",  "array",  <<1, 2>>,       "",         "none") }

Reply(t, sh, nr, k, ss) ==
    [transport |-> t, shape |-> sh, needsRestructuring |-> nr,
     restructuringReason |-> "model reason", suggKind |-> k, suggestions |-> ss]

\* shape "noBrace": the text has no {...} span; "badSpan": the span from the
\* first "{" to the last "}" is not JSON; "object": the span parses.
\* suggKind "absent": no suggestions member; "notArray": a truthy non-array.
Replies ==
    { Reply("error", "noBrace", FALSE, "absent", <<>>),
      Reply("ok",    "noBrace", FALSE, "absent", <<>>),
      Reply("ok",    "badSpan", FALSE, "absent", <<>>) }
    \cup { Reply("ok", "object", nr, k, <<>>) :
               nr \in BOOLEAN, k \in {"absent", "notArray"} }
    \cup { Reply("ok", "object", nr, "array", ss) :
               nr \in BOOLEAN, ss \in SeqsUpTo(SuggestionPool, MaxSugg) }

MkEvals(ws) == [i \in 1..Len(ws) |-> [id |-> i, working |-> ws[i]]]

EvalInputs == { MkEvals(ws) : ws \in SeqsUpTo(BOOLEAN, MaxEvals) }

\* ------------------------------------------------------- analyzeStructure
Analysis(nr, cnt, reason, k, ss) ==
    [threw |-> FALSE, needsRestructuring |-> nr, currentSectionCount |-> cnt,
     restructuringReason |-> reason, suggKind |-> k, suggestions |-> ss]

Thrown ==
    [threw |-> TRUE, needsRestructuring |-> FALSE, currentSectionCount |-> 0,
     restructuringReason |-> "", suggKind |-> "absent", suggestions |-> <<>>]

buildDefault(sectionCount) ==
    Analysis(FALSE, sectionCount, "No structural issues detected", "array", <<>>)

\* variant of HighOrMedium: everything not labelled 'low' passes
HighOrMedium_NotLow(s) == s.confidenceLevel # "low"

HighOrMedium(s) == s.confidenceLevel = "high" \/ s.confidenceLevel = "medium"

SmallBlogLimit == 7

analyzeStructureGuarded(secs, r) ==
    LET n == Len(secs) IN
    IF r.transport = "error" THEN Thrown
    ELSE IF r.shape = "noBrace"
         THEN Analysis(FALSE, n, "No clear structural issues found", "array", <<>>)
    ELSE IF r.shape = "badSpan" THEN Thrown
    ELSE IF r.suggKind = "notArray" THEN Thrown
    ELSE IF r.suggKind = "absent"
         THEN IF n <= SmallBlogLimit THEN Thrown
              ELSE Analysis(FALSE, n, r.restructuringReason, "absent", <<>>)
    ELSE LET kept == SelectSeq(r.suggestions,
                        LAMBDA s : HighOrMedium(s) /\ s.action # "keep")
         IN  Analysis(IF Len(kept) = 0 THEN FALSE ELSE r.needsRestructuring,
                      n, r.restructuringReason, "array", kept)

analyzeStructureRelaxed(secs, r) ==
    LET n == Len(secs) IN
    IF r.transport = "error" THEN Thrown
    ELSE IF r.shape = "noBrace"
         THEN Analysis(FALSE, n, "Unable to parse AI response", "array", <<>>)
    ELSE IF r.shape = "badSpan" THEN Thrown
    ELSE IF r.suggKind = "notArray" THEN Thrown
    ELSE IF r.suggKind = "absent"
         THEN Analysis(FALSE, n, r.restructuringReason, "absent", <<>>)
    ELSE LET kept == SelectSeq(r.suggestions, HighOrMedium)
         IN  Analysis(IF Len(kept) = 0 THEN FALSE ELSE r.needsRestructuring,
                      n, r.restructuringReason, "array", kept)
\* variant of ExactlyTwo: two or more sections pass
ExactlyTwo_AtLeastTwo(s) == s.affKind = "array" /\ Len(s.affectedSections) >= 2


ExactlyTwo(s) == s.affKind = "array" /\ Len(s.affectedSections) = 2

InBounds(s, n) == \A k \in 1..Len(s.affectedSections) :
                      s.affectedSections[k] >= 0 /\ s.affectedSections[k] < n
\* variant of PairKey: the entries are joined without sorting
PairKey_Unsorted(s) == s.affectedSections

\* [...s.affectedSections].sort().join('-') for a two entry array: the two
\* entries in ascending order (the indices in play have one digit, where the
\* default string sort agrees with the numeric order).
PairKey(s) ==
    LET a == s.affectedSections[1]
        b == s.affectedSections[2]
    IN  IF a <= b THEN <<a, b>> ELSE <<b, a>>

RECURSIVE DedupFilter(_, _)
DedupFilter(ss, seen) ==
    IF ss = <<>> THEN <<>>
    ELSE LET key == PairKey(Head(ss)) IN
         IF key \in seen THEN DedupFilter(Tail(ss), seen)
         ELSE <<Head(ss)>> \o DedupFilter(Tail(ss), seen \cup {key})

analyzeStructureStrict(secs, r) ==
    LET n == Len(secs) IN
    IF r.transport = "error" THEN buildDefault(n)
    ELSE IF r.shape = "noBrace" THEN buildDefault(n)
    ELSE IF r.shape = "badSpan" THEN buildDefault(n)
    ELSE LET s1 == IF r.suggKind = "array" THEN r.suggestions ELSE <<>>
             s2 == SelectSeq(s1, ExactlyTwo)
             s3 == SelectSeq(s2, LAMBDA s : InBounds(s, n))
             s4 == DedupFilter(s3, {})
         IN  Analysis(Len(s4) > 0, n, r.restructuringReason, "array", s4)

analyzeStructure(v, secs, r) ==
    IF v = "guarded" THEN analyzeStructureGuarded(secs, r)
    ELSE IF v = "relaxed" THEN analyzeStructureRelaxed(secs, r)
    ELSE analyzeStructureStrict(secs, r)

\* ------------------------------------------------------ generateProposals
\* Titles and descriptions are template strings; they are kept as the
\* sequence of their parts, so that "the text names heading h" is "h is one
\* of the parts".
Capitalize(a) ==
    CASE a = "merge"   -> "Merge"
      [] a = "rewrite" -> "Rewrite"
      [] a = "keep"    -> "Keep"
      [] a = "remove"  -> "Remove"
      [] OTHER         -> a

Indices(ss) == [i \in 1..Len(ss) |-> i]

\* variant of BrokenLinks: only the first broken link is reported
BrokenLinks_FirstOnly(evals) ==
    LET b == SelectSeq(evals, LAMBDA l : ~l.working)
    IN  IF Len(b) > 1 THEN <<b[1]>> ELSE b

BrokenLinks(evals) == SelectSeq(evals, LAMBDA l : ~l.working)

LinkProposal(broken, plural) ==
    [id |-> "proposal-links", type |-> "link-fixes", action |-> "",
     title |-> <<"Fix Broken Links">>,
     description |-> <<"Found ", ToString(Len(broken)),
                       " broken or inaccessible link", plural,
                       " that should be updated or removed.">>,
     affKind |-> "absent", affectedSections |-> <<>>, newHeading |-> "",
     rationale |-> "Broken links harm user experience and SEO.",
     confidenceLevel |-> "", approved |-> FALSE, affectedLinks |-> broken]

StructureProposal(i, s, title, description, conf) ==
    [id |-> "proposal-structure-" \o ToString(i), type |-> "structure",
     action |-> s.action, title |-> title, description |-> description,
     affKind |-> s.affKind, affectedSections |-> s.affectedSections,
     newHeading |-> s.newHeading, rationale |-> s.rationale,
     confidenceLevel |-> conf, approved |-> FALSE, affectedLinks |-> <<>>]

\* sections[idx]?.heading || fallback
HeadingOr(secs, idx, fallback) ==
    IF idx >= 0 /\ idx < Len(secs) /\ Truthy(secs[idx + 1])
    THEN secs[idx + 1] ELSE fallback

\* acc + (s.affectedSections?.length || 0) over the merge suggestions
RECURSIVE totalAffectedSections(_)
totalAffectedSections(ss) ==
    IF ss = <<>> THEN 0
    ELSE (IF Head(ss).action = "merge" /\ Head(ss).affKind = "array"
          THEN Len(Head(ss).affectedSections) ELSE 0)
         + totalAffectedSections(Tail(ss))

\* mergeRatio > 0.6, with mergeRatio = total / count (Infinity or NaN for
\* count = 0), in integer arithmetic.
GuardrailNum == 6
GuardrailDen == 10
TooAggressive(total, count) == total * GuardrailDen > GuardrailNum * count

\* What one iteration of the loop does with suggestion s: "skip" (continue),
\* "push" (append a proposal) or "throw" (a TypeError on a missing array).
OutcomeGuarded(s) ==
    IF s.action = "keep" THEN "skip"
    ELSE IF s.action = "merge" /\ s.affKind = "absent" THEN "throw"
    ELSE IF s.action = "merge" /\ Len(s.affectedSections) > 2 THEN "skip"
    ELSE IF ~Truthy(s.newHeading) /\ s.affKind = "absent" THEN "throw"
    ELSE "push"

MakeGuarded(secs, s, i) ==
    StructureProposal(i, s,
        <<Capitalize(s.action), " Sections">>,
        IF Truthy(s.newHeading)
        THEN <<"Merge into: ", s.newHeading>>
        ELSE <<s.action, " section(s): ">> \o
             [k \in 1..Len(s.affectedSections) |->
                 HeadingOr(secs, s.affectedSections[k],
                           ToString(s.affectedSections[k]))],
        "")

generateProposalsGuarded(secs, evals, sa) ==
    LET broken == BrokenLinks(evals)
        linkPart == IF Len(broken) > 0 THEN <<LinkProposal(broken, "s")>> ELSE <<>>
        ss     == sa.suggestions
        pushed == SelectSeq(Indices(ss), LAMBDA i : OutcomeGuarded(ss[i]) = "push")
    IN  IF ~sa.needsRestructuring THEN [threw |-> FALSE, list |-> linkPart]
        ELSE IF sa.suggKind = "absent" THEN [threw |-> TRUE, list |-> <<>>]
        ELSE IF Len(ss) = 0 THEN [threw |-> FALSE, list |-> linkPart]
        ELSE IF TooAggressive(totalAffectedSections(ss), Len(secs))
             THEN [threw |-> FALSE, list |-> linkPart]
        ELSE IF \E i \in 1..Len(ss) : OutcomeGuarded(ss[i]) = "throw"
             THEN [threw |-> TRUE, list |-> <<>>]
        ELSE [threw |-> FALSE,
              list |-> linkPart \o [k \in 1..Len(pushed) |->
                           MakeGuarded(secs, ss[pushed[k]], pushed[k] - 1)]]

MergeCapRelaxed == 3

OutcomeRelaxed(s) ==
    IF s.affKind = "absent" \/ Len(s.affectedSections) = 0 THEN "skip"
    ELSE IF s.action = "merge" /\ Len(s.affectedSections) > MergeCapRelaxed
         THEN "skip"
    ELSE "push"

MakeRelaxed(secs, s, i) ==
    LET sectionNames ==
            [k \in 1..Len(s.affectedSections) |->
                HeadingOr(secs, s.affectedSections[k],
                          "Section " \o ToString(s.affectedSections[k]))]
    IN  StructureProposal(i, s,
            IF Truthy(s.newHeading) THEN <<s.newHeading>>
            ELSE <<Capitalize(s.action), " Sections">>,
            IF Truthy(s.newHeading)
            THEN <<"Merge ">> \o sectionNames \o <<" into: ", s.newHeading>>
            ELSE <<s.action, " sections: ">> \o sectionNames,
            s.confidenceLevel)

generateProposalsRelaxed(secs, evals, sa) ==
    LET broken == BrokenLinks(evals)
        linkPart == IF Len(broken) > 0 THEN <<LinkProposal(broken, "s")>> ELSE <<>>
        highMediumSuggestions == SelectSeq(sa.suggestions, HighOrMedium)
        pushed == SelectSeq(Indices(highMediumSuggestions),
                      LAMBDA i : OutcomeRelaxed(highMediumSuggestions[i]) = "push")
    IN  IF ~sa.needsRestructuring THEN [threw |-> FALSE, list |-> linkPart]
        ELSE IF sa.suggKind = "absent" THEN [threw |-> TRUE, list |-> <<>>]
        ELSE IF Len(sa.suggestions) = 0 THEN [threw |-> FALSE, list |-> linkPart]
        ELSE IF Len(highMediumSuggestions) = 0
             THEN [threw |-> FALSE, list |-> linkPart]
        ELSE [threw |-> FALSE,
              list |-> linkPart \o [k \in 1..Len(pushed) |->
                           MakeRelaxed(secs, highMediumSuggestions[pushed[k]],
                                       pushed[k] - 1)]]

OutcomeStrict(s) == IF s.affKind = "absent" THEN "throw" ELSE "push"

\* sections[s.affectedSections[k]]?.heading || Section ${...}; a missing
\* array entry reads as undefined.
SectionLabel(secs, s, k) ==
    IF k <= Len(s.affectedSections)
    THEN HeadingOr(secs, s.affectedSections[k],
                   "Section " \o ToString(s.affectedSections[k]))
    ELSE "Section undefined"

MakeStrict(secs, s, i) ==
    LET sectionA == SectionLabel(secs, s, 1)
        sectionB == SectionLabel(secs, s, 2)
    IN  StructureProposal(i, s,
            IF Truthy(s.newHeading) THEN <<s.newHeading>>
            ELSE <<"Merge: ", sectionA, " + ", sectionB>>,
            <<"Merge ", sectionA, " and ", sectionB,
              " into a single section: ", s.newHeading>>,
            "")

generateProposalsStrict(secs, evals, sa) ==
    LET broken == BrokenLinks(evals)
        linkPart == IF Len(broken) > 0
                  THEN <<LinkProposal(broken, IF Len(broken) > 1 THEN "s" ELSE "")>>
                  ELSE <<>>
        ss     == sa.suggestions
    IN  IF ~sa.needsRestructuring THEN [threw |-> FALSE, list |-> linkPart]
        ELSE IF sa.suggKind = "absent" THEN [threw |-> TRUE, list |-> <<>>]
        ELSE IF Len(ss) = 0 THEN [threw |-> FALSE, list |-> linkPart]
        ELSE IF \E i \in 1..Len(ss) : OutcomeStrict(ss[i]) = "throw"
             THEN [threw |-> TRUE, list |-> <<>>]
        ELSE [threw |-> FALSE,
              list |-> linkPart \o [k \in 1..Len(ss) |-> MakeStrict(secs, ss[k], k - 1)]]

generateProposals(v, secs, evals, sa) ==
    IF v = "guarded" THEN generateProposalsGuarded(secs, evals, sa)
    ELSE IF v = "relaxed" THEN generateProposalsRelaxed(secs, evals, sa)
    ELSE generateProposalsStrict(secs, evals, sa)

\* ----------------------------------------------------------- evaluateLinks
\* A URL is kept as its text together with the parts the patterns of the
\* link checker look at: the host, the file extension and, for a Drive share
\* URL, the file id after /file/d/.  server "steady" is a host that always
\* answers 200; server "any" may answer anything or fail.
Url(text, host, ext, fileId, server) ==
    [text |-> text, host |-> host, ext |-> ext, fileId |-> fileId, server |-> server]

SteadyUrl == Url("https://example.com/ok", "example.com", "", "", "steady")

HotUrls ==
    { Url("https://example.com/page", "example.com", "", "", "any"),
      Url("https://example.com/file.pdf", "example.com", "pdf", "", "any"),
      Url("https://drive.google.com/file/d/abc123/view?usp=sharing",
          "drive.google.com", "", "abc123", "any"),
      Url("https://drive.google.com/drive/folders/xyz",
          "drive.google.com", "", "", "any"),
      Url("https://docs.google.com/document/d/1/edit",
          "docs.google.com", "", "", "any") }

MkLinks(n, hot, u) ==
    [i \in 1..n |-> [id |-> "link-" \o ToString(i - 1),
                     url |-> IF i = hot THEN u ELSE SteadyUrl]]

LinkInputs == { MkLinks(n, hot, u) : n \in 0..MaxLinks, hot \in 0..MaxLinks, u \in HotUrls }

\* What a probe can come back with: an HTTP status (validateStatus accepts
\* every status) or a thrown error with its code ("" is an error without code).
Statuses == {200, 401, 403, 404, 405, 416, 500}
ErrorCodes == {"ECONNREFUSED", "ECONNRESET", "ETIMEDOUT", "ECONNABORTED", "ENOTFOUND", ""}

Returned(st) == [threw |-> FALSE, status |-> st, code |-> ""]
Threw(code) == [threw |-> TRUE, status |-> 0, code |-> code]

Outcomes(url) ==
    IF url.server = "steady" THEN {Returned(200)}
    ELSE {Returned(st) : st \in Statuses} \cup {Threw(c) : c \in ErrorCodes}

LinkCap == 20
\* variant of linksToCheck: the slice to the first 20 links is missing
linksToCheck_Uncapped(ls) == ls


linksToCheck(ls) == SubSeq(ls, 1, IF Len(ls) < LinkCap THEN Len(ls) ELSE LinkCap)

isSpecialUrl(url) ==
    \/ url.ext = "pdf"
    \/ url.host = "drive.google.com"
    \/ url.host = "docs.google.com"
    \/ url.host = "dropbox.com" /\ url.ext \in {"pdf", "doc", "docx", "ppt", "pptx"}
    \/ url.host = "onedrive.live.com"
    \/ url.host = "sharepoint.com"
    \/ url.host = "amazonaws.com" /\ url.ext \in {"pdf", "doc", "docx"}
    \/ url.host = "github.com" /\ url.ext \in {"pdf", "md", "txt"}

isGoogleService(url) == url.host \in {"drive.google.com", "docs.google.com", "google.com"}

convertGoogleDriveUrl(url) ==
    IF url.fileId # ""
    THEN "https://drive.google.com/file/d/" \o url.fileId \o "/view"
    ELSE url.text

\* variant of isNetworkError: a timeout is not worth a GET
isNetworkError_NoTimeout(o) ==
    o.code \in {"ECONNREFUSED", "ECONNRESET", "ECONNABORTED"}

isNetworkError(o) ==
    o.code \in {"ECONNREFUSED", "ECONNRESET", "ETIMEDOUT", "ECONNABORTED"}

getIssueMessage(status) ==
    CASE status = 400 -> "Bad request"
      [] status = 401 -> "Authentication required"
      [] status = 403 -> "Access forbidden"
      [] status = 404 -> "Page not found"
      [] status = 408 -> "Request timeout"
      [] status = 410 -> "Page permanently removed"
      [] status = 429 -> "Too many requests (rate limited)"
      [] status = 500 -> "Server error"
      [] status = 502 -> "Bad gateway"
      [] status = 503 -> "Service unavailable"
      [] status = 504 -> "Gateway timeout"
      [] OTHER -> "HTTP error (status " \o ToString(status) \o ")"

getErrorMessage(o) ==
    CASE o.code = "ENOTFOUND"    -> "Domain not found - URL may be invalid or site is down"
      [] o.code = "ECONNREFUSED" -> "Connection refused by server"
      [] o.code = "ECONNRESET"   -> "Connection was reset"
      [] o.code = "ETIMEDOUT"    -> "Request timed out"
      [] o.code = "ECONNABORTED" -> "Connection was aborted"
      [] OTHER -> "Connection failed (" \o (IF o.code # "" THEN o.code ELSE "message") \o ")"

NullIssue == "null"

Evaluation(link, status, working, issue, method) ==
    [id |-> link.id, url |-> link.url.text, status |-> status,
     working |-> working, issue |-> issue, method |-> method]

\* What a function does once its probe has come back: it returns a result
\* ("result"), it goes on to the fallback GET against a target ("get"), or an
\* error escapes it ("raise").
Done(result) == [kind |-> "result", target |-> "", result |-> result]
Fallback(link, target) ==
    [kind |-> "get", target |-> target, result |-> Evaluation(link, 0, FALSE, NullIssue, "")]
Raise(link) ==
    [kind |-> "raise", target |-> "", result |-> Evaluation(link, 0, FALSE, NullIssue, "")]

Ok2xx3xx(status) == status >= 200 /\ status < 400

\* the URL the HEAD probe of checkSpecialUrl goes to
checkUrl(link) ==
    IF link.url.host = "drive.google.com" THEN convertGoogleDriveUrl(link.url)
    ELSE link.url.text

checkSpecialUrl(link, o) ==
    IF o.threw
    THEN IF isNetworkError(o) THEN Fallback(link, link.url.text)
         ELSE Done(Evaluation(link, 0, FALSE, getErrorMessage(o), "HEAD-SPECIAL"))
    ELSE IF Ok2xx3xx(o.status) \/ (isGoogleService(link.url) /\ o.status = 403)
         THEN Done(Evaluation(link, IF o.status = 403 THEN 200 ELSE o.status, TRUE,
                   IF o.status = 403 THEN "Private file (access restricted)"
                   ELSE NullIssue, "HEAD-SPECIAL"))
    ELSE IF o.status = 405 \/ o.status = 403
         THEN Fallback(link, checkUrl(link))
    ELSE Done(Evaluation(link, o.status, FALSE, getIssueMessage(o.status), "HEAD-SPECIAL"))
\* variant of fallbackToGetSpecial: an accepted 401 keeps its status
fallbackToGetSpecial_Keeps401(link, o) ==
    IF o.threw
    THEN Done(Evaluation(link, 0, FALSE, getErrorMessage(o), "GET-SPECIAL"))
    ELSE IF \/ Ok2xx3xx(o.status)
            \/ (isGoogleService(link.url) /\ (o.status = 403 \/ o.status = 401))
            \/ o.status = 416
         THEN Done(Evaluation(link,
                  IF o.status = 403 \/ o.status = 416 THEN 200 ELSE o.status,
                  TRUE,
                  IF o.status = 403 \/ o.status = 401
                  THEN "Private file (access restricted)" ELSE NullIssue,
                  "GET-SPECIAL"))
    ELSE Done(Evaluation(link, o.status, FALSE, getIssueMessage(o.status), "GET-SPECIAL"))


fallbackToGetSpecial(link, o) ==
    IF o.threw
    THEN Done(Evaluation(link, 0, FALSE, getErrorMessage(o), "GET-SPECIAL"))
    ELSE IF \/ Ok2xx3xx(o.status)
            \/ (isGoogleService(link.url) /\ (o.status = 403 \/ o.status = 401))
            \/ o.status = 416
         THEN Done(Evaluation(link,
                  IF o.status = 403 \/ o.status = 401 \/ o.status = 416
                  THEN 200 ELSE o.status,
                  TRUE,
                  IF o.status = 403 \/ o.status = 401
                  THEN "Private file (access restricted)" ELSE NullIssue,
                  "GET-SPECIAL"))
    ELSE Done(Evaluation(link, o.status, FALSE, getIssueMessage(o.status), "GET-SPECIAL"))
\* variant of checkStandardUrl: a 401 on the HEAD probe is not escalated
checkStandardUrl_No401(link, o) ==
    IF o.threw
    THEN IF isNetworkError(o) THEN Fallback(link, link.url.text)
         ELSE Done(Evaluation(link, 0, FALSE, getErrorMessage(o), "HEAD"))
    ELSE IF Ok2xx3xx(o.status)
         THEN Done(Evaluation(link, o.status, TRUE, NullIssue, "HEAD"))
    ELSE IF o.status = 405 \/ o.status = 403
         THEN Fallback(link, link.url.text)
    ELSE Done(Evaluation(link, o.status, FALSE, getIssueMessage(o.status), "HEAD"))


checkStandardUrl(link, o) ==
    IF o.threw
    THEN IF isNetworkError(o) THEN Fallback(link, link.url.text)
         ELSE Done(Evaluation(link, 0, FALSE, getErrorMessage(o), "HEAD"))
    ELSE IF Ok2xx3xx(o.status)
         THEN Done(Evaluation(link, o.status, TRUE, NullIssue, "HEAD"))
    ELSE IF o.status = 405 \/ o.status = 403 \/ o.status = 401
         THEN Fallback(link, link.url.text)
    ELSE Done(Evaluation(link, o.status, FALSE, getIssueMessage(o.status), "HEAD"))
\* variant of fallbackToGet: an accepted 416 keeps its status
fallbackToGet_Keeps416(link, o) ==
    IF o.threw
    THEN Done(Evaluation(link, 0, FALSE, getErrorMessage(o), "GET"))
    ELSE IF Ok2xx3xx(o.status) \/ o.status = 416
         THEN Done(Evaluation(link, o.status, TRUE, NullIssue, "GET"))
    ELSE Done(Evaluation(link, o.status, FALSE, getIssueMessage(o.status), "GET"))

\* variant of fallbackToGet: the catch block is missing
fallbackToGet_NoCatch(link, o) ==
    IF o.threw
    THEN Raise(link)
    ELSE IF Ok2xx3xx(o.status) \/ o.status = 416
         THEN Done(Evaluation(link, IF o.status = 416 THEN 200 ELSE o.status, TRUE,
                              NullIssue, "GET"))
    ELSE Done(Evaluation(link, o.status, FALSE, getIssueMessage(o.status), "GET"))


fallbackToGet(link, o) ==
    IF o.threw
    THEN Done(Evaluation(link, 0, FALSE, getErrorMessage(o), "GET"))
    ELSE IF Ok2xx3xx(o.status) \/ o.status = 416
         THEN Done(Evaluation(link, IF o.status = 416 THEN 200 ELSE o.status, TRUE,
                         NullIssue, "GET"))
    ELSE Done(Evaluation(link, o.status, FALSE, getIssueMessage(o.status), "GET"))


\* ------------------------------------------------------------ applyChanges
\* The document is kept as the sequence of its anchors; an anchor is its
\* href and its set of classes.
BrokenHref == "https://broken.com"
OtherHref == "https://example.com/ok"
QuoteHref == "https://example.com/?q=\"a\""
SlashHref == "https://example.com/a\\b"

HrefPool == {BrokenHref, OtherHref, QuoteHref, SlashHref}

Anchor(href) == [href |-> href, classes |-> {}]

Docs == { [i \in 1..Len(hs) |-> Anchor(hs[i])] : hs \in SeqsUpTo(HrefPool, MaxAnchors) }

\* $(a[href="${link.url}"]) with a template string: the url is pasted into the selector text
\* unescaped.  A double quote in the url ends the quoted value early and the
\* selector does not parse (the call throws); a backslash is read as a CSS
\* escape, so the selector compares against another string than the url.
Selector(url) ==
    CASE url = QuoteHref -> [ok |-> FALSE, value |-> ""]
      [] url = SlashHref -> [ok |-> TRUE, value |-> "https://example.com/a<U+000B>"]
      [] OTHER           -> [ok |-> TRUE, value |-> url]

MarkerClass == "broken-link-removed"

\* .attr('href', '#').addClass('broken-link-removed') on the matched anchors
MarkBroken(d, value) ==
    [i \in 1..Len(d) |->
        IF d[i].href = value
        THEN [href |-> "#", classes |-> d[i].classes \cup {MarkerClass}]
        ELSE d[i]]

\* linkProposal.affectedLinks.forEach(...)
RECURSIVE ApplyLinkFixes(_, _)
ApplyLinkFixes(d, urls) ==
    IF urls = <<>> THEN [threw |-> FALSE, dom |-> d]
    ELSE IF ~Selector(Head(urls)).ok THEN [threw |-> TRUE, dom |-> d]
    ELSE ApplyLinkFixes(MarkBroken(d, Selector(Head(urls)).value), Tail(urls))

\* An approved proposal as the client sends it.  linksKind / affKind "absent"
\* is a proposal without an affectedLinks / affectedSections array.
Approved(type, linksKind, urls, affKind) ==
    [type |-> type, linksKind |-> linksKind, affectedLinks |-> urls, affKind |-> affKind]

LinkFix(urls) == Approved("link-fixes", "array", urls, "absent")
StructureChange == Approved("structure", "absent", <<>>, "array")

ApprovedLists ==
    { <<>>,
      <<LinkFix(<<BrokenHref>>)>>,
      <<LinkFix(<<BrokenHref, OtherHref>>)>>,
      <<LinkFix(<<QuoteHref>>)>>,
      <<LinkFix(<<SlashHref, BrokenHref>>)>>,
      <<Approved("link-fixes", "absent", <<>>, "absent")>>,
      <<LinkFix(<<BrokenHref>>), LinkFix(<<OtherHref>>)>>,
      <<StructureChange>>,
      <<StructureChange, StructureChange>>,
      <<Approved("structure", "absent", <<>>, "absent")>>,
      <<LinkFix(<<BrokenHref>>), StructureChange>>,
      <<StructureChange, LinkFix(<<OtherHref>>)>>,
      <<LinkFix(<<QuoteHref>>), StructureChange>> }

\* Reply texts are sequences of tokens: the fence marker, the word html,
\* white space and markup.
\* (Fence stands for the marker of three backticks.)
Fence == "[fence]"
Markup == "<p>x</p>"
InnerTokens == {Fence, "\n", Markup}

ApplyTexts ==
    UNION { { x, <<Fence, "html", "\n">> \o x \o <<"\n", Fence>>,
              <<Fence, "\n">> \o x \o <<"\n", Fence>> } :
            x \in SeqsUpTo(InnerTokens, MaxInner) }

ApplyReplies ==
    { [transport |-> "error", text |-> <<>>] }
    \cup { [transport |-> "ok", text |-> t] : t \in ApplyTexts }

IsSpace(tok) == tok \in {"\n", " "}

RECURSIVE DropLeadingSpace(_)
DropLeadingSpace(t) ==
    IF t # <<>> /\ IsSpace(Head(t)) THEN DropLeadingSpace(Tail(t)) ELSE t

RECURSIVE DropTrailingSpace(_)
DropTrailingSpace(t) ==
    IF t # <<>> /\ IsSpace(t[Len(t)])
    THEN DropTrailingSpace(SubSeq(t, 1, Len(t) - 1)) ELSE t
\* variant of StripHtmlFence: the [fence]html opener is left in place
StripHtmlFence_Ignored(t) == t

\* .replace(/^[fence]html\s*/i, '')
StripHtmlFence(t) ==
    IF Len(t) >= 2 /\ t[1] = Fence /\ t[2] = "html"
    THEN DropLeadingSpace(SubSeq(t, 3, Len(t))) ELSE t

\* .replace(/^[fence]\s*/i, '')
StripOpenFence(t) ==
    IF Len(t) >= 1 /\ t[1] = Fence THEN DropLeadingSpace(Tail(t)) ELSE t

\* .replace(/\s*[fence]$/, '')
StripCloseFence(t) ==
    IF Len(t) >= 1 /\ t[Len(t)] = Fence
    THEN DropTrailingSpace(SubSeq(t, 1, Len(t) - 1)) ELSE t

Trim(t) == DropTrailingSpace(DropLeadingSpace(t))

StripFences(t) == Trim(StripCloseFence(StripOpenFence(StripHtmlFence(t))))

\* The value applyChanges settles with: a document, a text or an error.
NoResult == [kind |-> "none", dom |-> <<>>, text |-> <<>>, error |-> ""]
ReturnedDom(d) == [kind |-> "dom", dom |-> d, text |-> <<>>, error |-> ""]
ReturnedText(t) == [kind |-> "text", dom |-> <<>>, text |-> t, error |-> ""]
ThrownError(e) == [kind |-> "error", dom |-> <<>>, text |-> <<>>, error |-> e]
AwaitModel == [kind |-> "await", dom |-> <<>>, text |-> <<>>, error |-> ""]

FirstOfType(approved, type) ==
    LET idx == {i \in 1..Len(approved) : approved[i].type = type}
    IN  approved[CHOOSE i \in idx : \A j \in idx : i <= j]

\* applyChanges up to its first await: the document is parsed, the first
\* link-fixes proposal is applied, then the function returns the document,
\* throws, or builds the prompt and awaits the model.  The strict module
\* skips a link-fixes proposal without affectedLinks; the others read
\* affectedLinks.forEach of it.
applyChangesStart(v, d, approvedKind, approved, sectionsKind) ==
    IF approvedKind # "array"
    THEN [step |-> ThrownError("TypeError"), dom |-> d]
    ELSE
    LET hasLinkProposal == \E i \in 1..Len(approved) : approved[i].type = "link-fixes"
        linkProposal == FirstOfType(approved, "link-fixes")
        noArray == hasLinkProposal /\ linkProposal.linksKind = "absent"
        fixed == IF ~hasLinkProposal \/ noArray THEN [threw |-> FALSE, dom |-> d]
                 ELSE ApplyLinkFixes(d, linkProposal.affectedLinks)
        structureProposals == SelectSeq(approved, LAMBDA q : q.type = "structure")
    IN  IF noArray /\ v # "strict"
        THEN [step |-> ThrownError("TypeError"), dom |-> d]
        ELSE IF fixed.threw
        THEN [step |-> ThrownError("Attribute selector didn't terminate"),
              dom |-> fixed.dom]
        ELSE IF Len(structureProposals) > 0
        THEN IF \/ sectionsKind # "array"
                \/ \E i \in 1..Len(structureProposals) :
                       structureProposals[i].affKind = "absent"
             THEN [step |-> ThrownError("TypeError"), dom |-> fixed.dom]
             ELSE [step |-> AwaitModel, dom |-> fixed.dom]
        ELSE [step |-> ReturnedDom(fixed.dom), dom |-> fixed.dom]
\* variant of applyChangesResume: a failed model call yields an empty text
applyChangesResume_Masked(r) ==
    IF r.transport = "error" THEN ReturnedText(<<>>)
    ELSE ReturnedText(StripFences(r.text))
\* variant of applyChangesResume: the final trim() is missing
applyChangesResume_Untrimmed(r) ==
    IF r.transport = "error" THEN ThrownError("AI API Error")
    ELSE ReturnedText(StripCloseFence(StripOpenFence(StripHtmlFence(r.text))))

\* applyChanges after the model call has settled
applyChangesResume(r) ==
    IF r.transport = "error" THEN ThrownError("AI API Error")
    ELSE ReturnedText(StripFences(r.text))

\* --------------------------------------------------------------- controller
\* A request body; a Kind of "absent" is a missing field, "empty" an empty
\* string.  For analyze-blog the content is its h2 headings and its anchors,
\* for apply-changes its anchors.
Request(endpoint, urlKind, contentKind, h2, anchors, doc, approvedKind, approved, sectionsKind) ==
    [endpoint |-> endpoint, urlKind |-> urlKind, contentKind |-> contentKind,
     h2 |-> h2, anchors |-> anchors, doc |-> doc, approvedKind |-> approvedKind,
     approved |-> approved, sectionsKind |-> sectionsKind]

NoRequest == Request("none", "absent", "absent", <<>>, <<>>, <<>>, "absent", <<>>, "absent")

RelativeUrl == Url("/about", "", "", "", "steady")

\* href.startsWith('http')
IsHttp(url) == url # RelativeUrl

\* the anchors of a posted content: one anchor is an ordinary page, a Drive
\* share or a relative link, the others point at the steady host
BodyUrls ==
    { u \in HotUrls : u.text \in {"https://example.com/page",
                                  "https://drive.google.com/file/d/abc123/view?usp=sharing"} }
    \cup {RelativeUrl}

BodyAnchors ==
    { [i \in 1..n |-> IF i = hot THEN u ELSE SteadyUrl] :
          n \in 0..MaxBodyLinks, hot \in 0..MaxBodyLinks, u \in BodyUrls }

FetchRequests ==
    { Request("fetch", k, "absent", <<>>, <<>>, <<>>, "absent", <<>>, "absent") :
          k \in {"absent", "empty", "present"} }

AnalyzeRequests ==
    { Request("analyze", "absent", k, <<>>, <<>>, <<>>, "absent", <<>>, "absent") :
          k \in {"absent", "empty"} }
    \cup { Request("analyze", "absent", "html", SubSeq(HeadingPool, 1, n), a, <<>>,
                   "absent", <<>>, "absent") :
               n \in 0..MaxSections, a \in BodyAnchors }

ApplyRequests ==
    { Request("apply", "absent", ck, <<>>, <<>>, <<>>, ak, <<>>, sk) :
          ck \in {"absent", "empty", "html"}, ak \in {"absent", "notArray"},
          sk \in {"absent", "array"} }
    \cup { Request("apply", "absent", ck, <<>>, <<>>, <<>>, "array", <<>>, "array") :
               ck \in {"absent", "empty"} }
    \cup { Request("apply", "absent", "html", <<>>, <<>>, d, "array", ap, sk) :
               d \in Docs, ap \in ApprovedLists, sk \in {"absent", "array"} }

Requests == FetchRequests \cup AnalyzeRequests \cup ApplyRequests

\* the page an outbound fetch can come back with: the inner HTML of the
\* candidate containers ("" when there is no such element) and the texts of
\* h1 and title, as token sequences
Page(article, main, body, h1, title) ==
    [article |-> article, main |-> main, postContent |-> "", entryContent |-> "",
     body |-> body, h1 |-> h1, title |-> title]

FetchedPages ==
    { Page("<p>article</p>", "<p>main</p>", "<article/><main/>",
           <<" ", "My Post", "\n">>, <<"Site">>),
      Page("", "<p>main</p>", "<main/>", <<>>, <<"Site">>),
      Page("", "", "<p>body</p>", <<>>, <<>>) }

FirstTruthy(strs) ==
    LET idx == {i \in 1..Len(strs) : Truthy(strs[i])}
    IN  IF idx = {} THEN "" ELSE strs[CHOOSE i \in idx : \A j \in idx : i <= j]

\* $('article').html() || $('main').html() || ... || $('body').html()
ExtractContent(pg) ==
    FirstTruthy(<<pg.article, pg.main, pg.postContent, pg.entryContent, pg.body>>)

\* ($('h1').first().text() || $('title').text() || 'Untitled').trim()
ExtractTitle(pg) ==
    Trim(IF pg.h1 # <<>> THEN pg.h1 ELSE IF pg.title # <<>> THEN pg.title
         ELSE <<"Untitled">>)

\* $('a[href]').each((i, elem) => ...): the id counts every anchor, the
\* list keeps the http ones
ExtractLinks(anchors) ==
    SelectSeq([i \in 1..Len(anchors) |->
                  [id |-> "link-" \o ToString(i - 1), url |-> anchors[i]]],
              LAMBDA l : IsHttp(l.url))

\* the results checkLink(link) can settle with, over every outcome of its
\* HEAD probe and of its fallback GET
CheckLinkResults(link) ==
    LET special == isSpecialUrl(link.url)
        head(o) == IF special THEN checkSpecialUrl(link, o) ELSE checkStandardUrl(link, o)
        get(o)  == IF special THEN fallbackToGetSpecial(link, o) ELSE fallbackToGet(link, o)
        os      == Outcomes(link.url)
    IN  { head(o).result : o \in {x \in os : head(x).kind = "result"} }
        \cup (IF \E o \in os : head(o).kind = "get"
              THEN { get(o).result : o \in os } ELSE {})

\* the arrays evaluateLinks(ls) can resolve with
EvaluateLinksResults(ls) ==
    LET lc == linksToCheck(ls)
        all == UNION { CheckLinkResults(lc[i]) : i \in 1..Len(lc) }
    IN  { evs \in [1..Len(lc) -> all] :
              \A i \in 1..Len(lc) : evs[i] \in CheckLinkResults(lc[i]) }

NoCalls ==
    [fetch |-> 0, evaluateLinks |-> 0, analyzeStructure |-> 0,
     generateProposals |-> 0, applyChanges |-> 0, model |-> 0]

Called(c, name) == [c EXCEPT ![name] = @ + 1]

NoResponse == [status |-> 0, error |-> "", details |-> "", data |-> <<>>]
Answer(data) == [status |-> 200, error |-> "", details |-> "", data |-> data]
Refuse(status, error, details) ==
    [status |-> status, error |-> error, details |-> details, data |-> <<>>]

NoApplyReply == [transport |-> "none", text |-> <<>>]

\* variant of MissingApplyData: only the content is required
MissingApplyData_ContentOnly(req) == req.contentKind # "html"

\* !content || !approvedProposals
MissingApplyData(req) == req.contentKind # "html" \/ req.approvedKind = "absent"
\* variant of ControllerDefault: the default asks for restructuring
ControllerDefault_Flagged(n) == Analysis(TRUE, n, "", "array", <<>>)

\* the structureAnalysis analyzeBlog starts from
ControllerDefault(n) == Analysis(FALSE, n, "", "array", <<>>)

\* ------------------------------------------------------------ state machine
\* ------------------------------------------------------------ App (the UI)
\* App is the React component of frontend/src/app.jsx; unnamed/part_003 is
\* the same component with the step 'complete' extended by "Try Different
\* Changes".  A blog post is kept as far as the analysis looks at it: how
\* many h2 sections it has and whether one of its links is broken.
UiApps == {"app.jsx", "part_003"}

Post(h2, broken) == [h2 |-> h2, broken |-> broken]
Pages == { Post(h2, TRUE) : h2 \in {0, 2} }
NoContent == [set |-> FALSE, h2 |-> 0, broken |-> FALSE]
UiContent(post) == [set |-> TRUE, h2 |-> post.h2, broken |-> post.broken]
NoUiAnalysis == [id |-> 0, sections |-> 0]

\* what the user can have typed: nothing, blanks only, or a text
Blank == "   "
TypedUrl == "https://example.com/blog-post"
TypedHtml == "<h2>Intro</h2><p>text</p>"
\* TypedHtml has one h2 section and no link
TypedPost == Post(1, FALSE)

\* text.trim() of a typed value
TrimTyped(text) == IF text = Blank THEN "" ELSE text

UiProposal(id, type, of) == [id |-> id, type |-> type, approved |-> FALSE, of |-> of]

\* the proposals arrays an analyze-blog response can carry for a piece of
\* content: the link-fixes proposal if a link is broken, and, depending on
\* the model's reply, a structure proposal if there are sections
ProposalLists(content, of) ==
    LET linkPart == IF content.broken
                    THEN <<UiProposal("proposal-links", "link-fixes", of)>> ELSE <<>>
    IN  {linkPart}
        \cup (IF content.h2 > 0
              THEN {linkPart \o <<UiProposal("proposal-structure-0", "structure", of)>>}
              ELSE {})

UiState(mounted, step, inputMode, blogUrl, htmlInput, blogContent, uiAnalysis,
        uiProposals, refreshedContent, loading, error) ==
    [mounted |-> mounted, step |-> step, inputMode |-> inputMode,
     blogUrl |-> blogUrl, htmlInput |-> htmlInput, blogContent |-> blogContent,
     analysis |-> uiAnalysis, proposals |-> uiProposals,
     refreshedContent |-> refreshedContent, loading |-> loading, error |-> error]

\* the useState initial values
UiInitial ==
    UiState(TRUE, "input", "url", "", "", NoContent, NoUiAnalysis, <<>>, "", FALSE, "")

\* The render of a state throws a TypeError where it reads a field of
\* blogContent while blogContent is null: blogContent.title in the step
\* 'approval' (rendered when analysis is set), blogContent.content in the
\* step 'complete'.
RenderThrows(st) ==
    \/ st.step = "approval" /\ st.analysis # NoUiAnalysis /\ st.blogContent = NoContent
    \/ st.step = "complete" /\ st.blogContent = NoContent

\* The state updates of one handler run are committed and App renders; a
\* render that throws unmounts App (there is no error boundary), after which
\* nothing is shown and state updates are dropped.
Commit(st) == IF RenderThrows(st) THEN [st EXCEPT !.mounted = FALSE] ELSE st

\* A request App has issued and that has not settled.  Requests with the
\* same payload are alike, so the requests under way form a bag.
UiRequest(kind, content, approvedProposals) ==
    [kind |-> kind, content |-> content, approvedProposals |-> approvedProposals]

\* the numbers in use for the analyses App holds or has taken last
LiveIds(st, last) ==
    {last, st.analysis.id} \cup {st.proposals[i].of : i \in 1..Len(st.proposals)}

\* analysis results are told apart by a number: the least one not in use
FreshId(live) ==
    CHOOSE i \in 1..(Cardinality(live) + 1) :
        i \notin live /\ \A j \in 1..(i - 1) : j \in live

\* proposals.filter(p => p.approved)
ApprovedOf(ps) == SelectSeq(ps, LAMBDA p : p.approved)

\* how a request settles: ok is a 2xx response; "server" an error response
\* that carries an error text; "network" a failure without response
Settlements == {"ok", "server", "network"}

\* err.response?.data?.error || fallback
ErrorText(outcome, serverText, fallback) ==
    IF outcome = "server" THEN serverText ELSE fallback

\* generative-model calls the backend issues while it serves the request:
\* analyze-blog calls analyzeStructure once if the post has sections;
\* apply-changes calls the model once if a structure proposal is approved,
\* unless the link-fix step has thrown before.
AnalyzeModelCalls(req, outcome) ==
    IF outcome = "network" THEN {0}
    ELSE IF req.content.h2 > 0 THEN {1} ELSE {0}

ApplyModelCalls(req, outcome) ==
    LET structural == \E i \in 1..Len(req.approvedProposals) :
                          req.approvedProposals[i].type = "structure"
    IN  IF outcome = "network" \/ ~structural THEN {0}
        ELSE IF outcome = "ok" THEN {1}
        ELSE {0, 1}

UiIdle ==
    /\ uiApp = "app.jsx"
    /\ page = Post(0, FALSE)
    /\ ui = UiInitial
    /\ net = EmptyBag
    /\ timers = EmptyBag
    /\ modelCalls = 0
    /\ restarted = FALSE
    /\ applies = 0
    /\ lastAnalysis = 0

NoAnalysis == Thrown
NoProposals == [threw |-> FALSE, list |-> <<>>]

NoProbe == [pos |-> 0, verb |-> "", target |-> ""]

LinksIdle ==
    /\ links = <<>>
    /\ lcPc = "idle"
    /\ pending = NoProbe
    /\ probes = <<>>
    /\ evaluations = <<>>

ServerIdle ==
    /\ request = NoRequest
    /\ srvPc = "idle"
    /\ calls = NoCalls
    /\ dom = <<>>
    /\ applyReply = NoApplyReply
    /\ applyResult = NoResult
    /\ response = NoResponse

AnalyzerIdle ==
    /\ variant = "strict"
    /\ sections = <<>>
    /\ reply = Reply("ok", "noBrace", FALSE, "absent", <<>>)
    /\ linkEvals = <<>>
    /\ pc = "idle"
    /\ call = "none"
    /\ analysis = NoAnalysis
    /\ genInput = NoAnalysis
    /\ proposals = NoProposals

Init ==
    /\ variant \in Variants
    /\ sections \in {SubSeq(HeadingPool, 1, n) : n \in 1..MaxSections}
    /\ reply \in Replies
    /\ linkEvals \in EvalInputs
    /\ pc = "start"
    /\ call = "none"
    /\ analysis = NoAnalysis
    /\ genInput = NoAnalysis
    /\ proposals = NoProposals
    /\ LinksIdle
    /\ ServerIdle
    /\ UiIdle

AnalyzeStructure ==
    /\ pc = "start"
    /\ analysis' = analyzeStructure(variant, sections, reply)
    /\ pc' = "analyzed"
    /\ UNCHANGED <<variant, sections, reply, linkEvals, call, genInput, proposals>>
    /\ UNCHANGED lVars
    /\ UNCHANGED sVars
    /\ UNCHANGED uVars

\* analyzeBlog step 3: the proposals are generated from the analysis.
GenerateFromAnalysis ==
    /\ pc = "analyzed"
    /\ ~analysis.threw
    /\ genInput' = analysis
    /\ proposals' = generateProposals(variant, sections, linkEvals, analysis)
    /\ call' = "pipeline"
    /\ pc' = "done"
    /\ UNCHANGED <<variant, sections, reply, linkEvals, analysis>>
    /\ UNCHANGED lVars
    /\ UNCHANGED sVars
    /\ UNCHANGED uVars

\* generateProposals called on its own with a caller-built structureAnalysis
\* (as the unit tests do): the object of the reply, unfiltered.
GenerateDirect ==
    /\ pc = "start"
    /\ reply.transport = "ok" /\ reply.shape = "object"
    /\ reply.suggKind # "notArray"
    /\ LET sa == Analysis(reply.needsRestructuring, Len(sections),
                          reply.restructuringReason, reply.suggKind,
                          reply.suggestions)
       IN  /\ genInput' = sa
           /\ proposals' = generateProposals(variant, sections, linkEvals, sa)
    /\ call' = "direct"
    /\ pc' = "done"
    /\ UNCHANGED <<variant, sections, reply, linkEvals, analysis>>
    /\ UNCHANGED lVars
    /\ UNCHANGED sVars
    /\ UNCHANGED uVars

Next == AnalyzeStructure \/ GenerateFromAnalysis \/ GenerateDirect

Spec == Init /\ [][Next]_vars

\* The strict module (unnamed/part_000) on its own.
InitStrict == Init /\ variant = "strict"

SpecStrict == InitStrict /\ [][Next]_vars

\* The confidence-labelling module (aiAnalyzer.js lines 236-494) on its own.
InitRelaxed == Init /\ variant = "relaxed"

SpecRelaxed == InitRelaxed /\ [][Next]_vars

\* ---- evaluateLinks(links): one action per probe issued and per response
InitLinks ==
    /\ AnalyzerIdle
    /\ links \in LinkInputs
    /\ lcPc = "loop"
    /\ pending = NoProbe
    /\ probes = <<>>
    /\ evaluations = <<>>
    /\ ServerIdle
    /\ UiIdle

\* variant of IssueHead: checkLink is not awaited, the next HEAD goes out
\* while the fallback GET of the link before is still on its way
IssueHead_NoAwait ==
    /\ lcPc \in {"loop", "get"}
    /\ Len(evaluations) + (IF lcPc = "get" THEN 1 ELSE 0) < Len(linksToCheck(links))
    /\ LET pos  == Len(evaluations) + (IF lcPc = "get" THEN 2 ELSE 1)
           link == linksToCheck(links)[pos]
       IN  pending' = [pos |-> pos, verb |-> "HEAD",
                       target |-> IF isSpecialUrl(link.url) THEN checkUrl(link)
                                  ELSE link.url.text]
    /\ lcPc' = "head"
    /\ UNCHANGED <<links, probes, evaluations>>
    /\ UNCHANGED aVars
    /\ UNCHANGED sVars
    /\ UNCHANGED uVars

\* checkLink(link) for the next link of linksToCheck: the HEAD probe goes out.
IssueHead ==
    /\ lcPc = "loop"
    /\ Len(evaluations) < Len(linksToCheck(links))
    /\ LET pos  == Len(evaluations) + 1
           link == linksToCheck(links)[pos]
       IN  pending' = [pos |-> pos, verb |-> "HEAD",
                       target |-> IF isSpecialUrl(link.url) THEN checkUrl(link)
                                  ELSE link.url.text]
    /\ lcPc' = "head"
    /\ UNCHANGED <<links, probes, evaluations>>
    /\ UNCHANGED aVars
    /\ UNCHANGED sVars
    /\ UNCHANGED uVars

\* The HEAD probe resolves or rejects; the link is settled or the GET goes out.
HeadReturns ==
    /\ lcPc = "head"
    /\ LET link == links[pending.pos] IN
       \E o \in Outcomes(link.url) :
          LET step == IF isSpecialUrl(link.url) THEN checkSpecialUrl(link, o)
                      ELSE checkStandardUrl(link, o)
          IN  /\ probes' = Append(probes, [pos |-> pending.pos, verb |-> "HEAD",
                                           target |-> pending.target, outcome |-> o])
              /\ CASE step.kind = "get" ->
                        /\ pending' = [pos |-> pending.pos, verb |-> "GET",
                                       target |-> step.target]
                        /\ lcPc' = "get"
                        /\ UNCHANGED evaluations
                   [] step.kind = "result" ->
                        /\ pending' = NoProbe
                        /\ lcPc' = "loop"
                        /\ evaluations' = Append(evaluations, step.result)
                   [] OTHER ->
                        /\ pending' = NoProbe
                        /\ lcPc' = "threw"
                        /\ UNCHANGED evaluations
    /\ UNCHANGED links
    /\ UNCHANGED aVars
    /\ UNCHANGED sVars
    /\ UNCHANGED uVars

\* The fallback GET resolves or rejects; the link is settled.
GetReturns ==
    /\ lcPc = "get"
    /\ LET link == links[pending.pos] IN
       \E o \in Outcomes(link.url) :
          LET step == IF isSpecialUrl(link.url) THEN fallbackToGetSpecial(link, o)
                      ELSE fallbackToGet(link, o)
          IN  /\ probes' = Append(probes, [pos |-> pending.pos, verb |-> "GET",
                                           target |-> pending.target, outcome |-> o])
              /\ IF step.kind = "result"
                 THEN /\ lcPc' = "loop"
                      /\ evaluations' = Append(evaluations, step.result)
                 ELSE /\ lcPc' = "threw"
                      /\ UNCHANGED evaluations
    /\ pending' = NoProbe
    /\ UNCHANGED links
    /\ UNCHANGED aVars
    /\ UNCHANGED sVars
    /\ UNCHANGED uVars

\* The loop is over: evaluateLinks returns evaluations.
ReturnEvaluations ==
    /\ lcPc = "loop"
    /\ Len(evaluations) = Len(linksToCheck(links))
    /\ lcPc' = "returned"
    /\ UNCHANGED <<links, pending, probes, evaluations>>
    /\ UNCHANGED aVars
    /\ UNCHANGED sVars
    /\ UNCHANGED uVars

NextLinks == IssueHead \/ HeadReturns \/ GetReturns \/ ReturnEvaluations

SpecLinks == InitLinks /\ [][NextLinks]_vars

\* ---- the controller: one request, one action per step of its handler
InitServer ==
    /\ variant \in Variants
    /\ sections = <<>>
    /\ reply = Reply("ok", "noBrace", FALSE, "absent", <<>>)
    /\ linkEvals = <<>>
    /\ pc = "idle"
    /\ call = "none"
    /\ analysis = NoAnalysis
    /\ genInput = NoAnalysis
    /\ proposals = NoProposals
    /\ LinksIdle
    /\ request \in Requests
    /\ srvPc = "received"
    /\ calls = NoCalls
    /\ dom = <<>>
    /\ applyReply = NoApplyReply
    /\ applyResult = NoResult
    /\ response = NoResponse
    /\ UiIdle

\* fetchBlog(req, res)
FetchBlog ==
    /\ srvPc = "received" /\ request.endpoint = "fetch"
    /\ IF request.urlKind # "present"
       THEN /\ response' = Refuse(400, "URL is required", "")
            /\ UNCHANGED calls
       ELSE /\ calls' = Called(calls, "fetch")
            /\ \/ response' = Refuse(500, "Failed to fetch blog content", "error")
               \/ \E pg \in FetchedPages :
                     response' = Answer([title |-> ExtractTitle(pg),
                                         content |-> ExtractContent(pg)])
    /\ srvPc' = "responded"
    /\ UNCHANGED <<request, dom, applyReply, applyResult>>
    /\ UNCHANGED <<aVars, lVars>>
    /\ UNCHANGED uVars

\* analyzeBlog(req, res) up to the end of step 1: the body is validated and
\* parsed, evaluateLinks(links) is awaited.
AnalyzeBlogReceive ==
    /\ srvPc = "received" /\ request.endpoint = "analyze"
    /\ IF request.contentKind # "html"
       THEN /\ response' = Refuse(400, "Content is required", "")
            /\ srvPc' = "responded"
            /\ UNCHANGED <<calls, sections, linkEvals>>
       ELSE /\ sections' = request.h2
            /\ calls' = Called(calls, "evaluateLinks")
            /\ linkEvals' \in EvaluateLinksResults(ExtractLinks(request.anchors))
            /\ srvPc' = "linked"
            /\ UNCHANGED response
    /\ UNCHANGED <<request, dom, applyReply, applyResult>>
    /\ UNCHANGED <<variant, reply, pc, call, analysis, genInput, proposals>>
    /\ UNCHANGED lVars
    /\ UNCHANGED uVars

\* analyzeBlog step 2: analyzeStructure(sections, title) is awaited inside
\* its own try/catch, only if there are sections.
AnalyzeBlogStructure ==
    /\ srvPc = "linked"
    /\ IF Len(sections) > 0
       THEN /\ \E r \in Replies : analysis' = analyzeStructure(variant, sections, r)
            /\ calls' = Called(Called(calls, "analyzeStructure"), "model")
       ELSE UNCHANGED <<analysis, calls>>
    /\ srvPc' = "analyzed"
    /\ UNCHANGED <<request, dom, applyReply, applyResult, response>>
    /\ UNCHANGED <<variant, sections, reply, linkEvals, pc, call, genInput, proposals>>
    /\ UNCHANGED lVars
    /\ UNCHANGED uVars

\* analyzeBlog step 3: generateProposals and the response.
AnalyzeBlogRespond ==
    /\ srvPc = "analyzed"
    /\ LET structureAnalysis ==
               IF Len(sections) > 0 /\ ~analysis.threw THEN analysis
               ELSE ControllerDefault(Len(sections))
           result == generateProposals(variant, sections, linkEvals, structureAnalysis)
       IN  /\ genInput' = structureAnalysis
           /\ proposals' = result
           /\ response' =
                 IF result.threw THEN Refuse(500, "Failed to analyze blog", "TypeError")
                 ELSE Answer([sections |-> sections, linkEvaluations |-> linkEvals,
                              structureAnalysis |-> structureAnalysis,
                              proposals |-> result.list])
    /\ calls' = Called(calls, "generateProposals")
    /\ srvPc' = "responded"
    /\ UNCHANGED <<request, dom, applyReply, applyResult>>
    /\ UNCHANGED <<variant, sections, reply, linkEvals, pc, call, analysis>>
    /\ UNCHANGED lVars
    /\ UNCHANGED uVars

\* what applyBlogChanges answers once applyChanges has settled
ApplyResponse(result) ==
    IF result.kind = "error"
    THEN Refuse(500, "Failed to apply changes", result.error)
    ELSE Answer([refreshedContent |-> result])

\* applyBlogChanges(req, res) up to the first await inside applyChanges
ApplyBlogChanges ==
    /\ srvPc = "received" /\ request.endpoint = "apply"
    /\ IF MissingApplyData(request)
       THEN /\ response' = Refuse(400, "Missing required data", "")
            /\ srvPc' = "responded"
            /\ UNCHANGED <<calls, dom, applyResult>>
       ELSE LET st == applyChangesStart(variant, request.doc, request.approvedKind,
                                        request.approved, request.sectionsKind)
            IN  /\ dom' = st.dom
                /\ IF st.step.kind = "await"
                   THEN /\ calls' = Called(Called(calls, "applyChanges"), "model")
                        /\ srvPc' = "calling"
                        /\ UNCHANGED <<applyResult, response>>
                   ELSE /\ calls' = Called(calls, "applyChanges")
                        /\ applyResult' = st.step
                        /\ response' = ApplyResponse(st.step)
                        /\ srvPc' = "responded"
    /\ UNCHANGED <<request, applyReply>>
    /\ UNCHANGED <<aVars, lVars>>
    /\ UNCHANGED uVars

\* the model call of applyChanges settles; applyChanges and the handler finish
ApplyModelReturns ==
    /\ srvPc = "calling"
    /\ \E r \in ApplyReplies :
          /\ applyReply' = r
          /\ applyResult' = applyChangesResume(r)
          /\ response' = ApplyResponse(applyChangesResume(r))
    /\ srvPc' = "responded"
    /\ UNCHANGED <<request, calls, dom>>
    /\ UNCHANGED <<aVars, lVars>>
    /\ UNCHANGED uVars

NextServer ==
    \/ FetchBlog
    \/ AnalyzeBlogReceive
    \/ AnalyzeBlogStructure
    \/ AnalyzeBlogRespond
    \/ ApplyBlogChanges
    \/ ApplyModelReturns

SpecServer == InitServer /\ [][NextServer]_vars

\* The apply-changes endpoint on its own.
InitApply == InitServer /\ request.endpoint = "apply"

NextApply == ApplyBlogChanges \/ ApplyModelReturns

SpecApply == InitApply /\ [][NextApply]_vars

\* ---- App: one action per event handler and per settled request
InitUI ==
    /\ AnalyzerIdle
    /\ LinksIdle
    /\ ServerIdle
    /\ uiApp \in UiApps
    /\ page \in Pages
    /\ ui = UiInitial
    /\ net = EmptyBag
    /\ timers = EmptyBag
    /\ modelCalls = 0
    /\ restarted = FALSE
    /\ applies = 0
    /\ lastAnalysis = 0

UiFrame == UNCHANGED <<aVars, lVars, sVars, uiApp, page>>

\* the user starts a request only while fewer than MaxPending are under way
MayIssue == BagCardinality(net) + BagCardinality(timers) < MaxPending

\* onClick={() => setInputMode(...)}
SetInputMode ==
    /\ ui.mounted /\ ui.step = "input"
    /\ \E m \in {"url", "html"} :
          /\ m # ui.inputMode
          /\ ui' = Commit([ui EXCEPT !.inputMode = m])
    /\ UNCHANGED <<net, timers, modelCalls, restarted, applies, lastAnalysis>>
    /\ UiFrame

\* onChange={(e) => setBlogUrl(e.target.value)}
SetBlogUrl ==
    /\ ui.mounted /\ ui.step = "input" /\ ui.inputMode = "url"
    /\ \E v \in {"", Blank, TypedUrl} :
          /\ v # ui.blogUrl
          /\ ui' = Commit([ui EXCEPT !.blogUrl = v])
    /\ UNCHANGED <<net, timers, modelCalls, restarted, applies, lastAnalysis>>
    /\ UiFrame

\* onChange={(e) => setHtmlInput(e.target.value)}
SetHtmlInput ==
    /\ ui.mounted /\ ui.step = "input" /\ ui.inputMode = "html"
    /\ \E v \in {"", TypedHtml} :
          /\ v # ui.htmlInput
          /\ ui' = Commit([ui EXCEPT !.htmlInput = v])
    /\ UNCHANGED <<net, timers, modelCalls, restarted, applies, lastAnalysis>>
    /\ UiFrame

\* handleFetchBlog up to its await
handleFetchBlog ==
    /\ IF ~Truthy(TrimTyped(ui.blogUrl))
       THEN /\ ui' = Commit([ui EXCEPT !.error = "Please enter a valid URL"])
            /\ UNCHANGED net
       ELSE /\ MayIssue
            /\ ui' = Commit([ui EXCEPT !.loading = TRUE, !.error = ""])
            /\ net' = net (+) SetToBag({UiRequest("fetch", NoContent, <<>>)})
    /\ UNCHANGED <<timers, modelCalls, restarted, applies, lastAnalysis>>
    /\ UiFrame

\* the button "Analyze Blog": onClick={handleFetchBlog} disabled={loading}
ClickFetchBlog ==
    /\ ui.mounted /\ ui.step = "input" /\ ui.inputMode = "url"
    /\ ~ui.loading
    /\ handleFetchBlog

\* the URL input: onKeyPress={(e) => e.key === 'Enter' && handleFetchBlog()}
EnterFetchBlog ==
    /\ ui.mounted /\ ui.step = "input" /\ ui.inputMode = "url"
    /\ handleFetchBlog

\* handleFetchBlog after its await: the fetch-blog request settles
FetchSettles ==
    /\ \E req \in BagToSet(net), outcome \in Settlements :
          /\ req.kind = "fetch"
          /\ net' = net (-) SetToBag({req})
          /\ IF outcome = "ok"
             THEN /\ ui' = IF ui.mounted
                           THEN Commit([ui EXCEPT !.blogContent = UiContent(page),
                                                  !.step = "analyzing"])
                           ELSE ui
                  /\ timers' = timers (+) SetToBag({UiContent(page)})
             ELSE /\ ui' = IF ui.mounted
                           THEN Commit([ui EXCEPT
                                   !.error = ErrorText(outcome, "Failed to fetch blog content",
                                                 "Failed to fetch blog. Please check the URL."),
                                   !.loading = FALSE])
                           ELSE ui
                  /\ UNCHANGED timers
    /\ UNCHANGED <<modelCalls, restarted, applies, lastAnalysis>>
    /\ UiFrame

\* the button "Analyze HTML": handleHtmlInput up to its await
ClickHtmlInput ==
    /\ ui.mounted /\ ui.step = "input" /\ ui.inputMode = "html"
    /\ ~ui.loading
    /\ IF ~Truthy(TrimTyped(ui.htmlInput))
       THEN /\ ui' = Commit([ui EXCEPT !.error = "Please paste HTML content"])
            /\ UNCHANGED net
       ELSE /\ MayIssue
            /\ ui' = Commit([ui EXCEPT !.loading = TRUE, !.error = ""])
            /\ net' = net (+) SetToBag({UiRequest("import", NoContent, <<>>)})
    /\ UNCHANGED <<timers, modelCalls, restarted, applies, lastAnalysis>>
    /\ UiFrame

\* handleHtmlInput after its await: the dynamic import of cheerio settles
ImportSettles ==
    /\ \E req \in BagToSet(net), outcome \in {"ok", "network"} :
          /\ req.kind = "import"
          /\ net' = net (-) SetToBag({req})
          /\ IF outcome = "ok"
             THEN /\ ui' = IF ui.mounted
                           THEN Commit([ui EXCEPT !.blogContent = UiContent(TypedPost),
                                                  !.step = "analyzing"])
                           ELSE ui
                  /\ timers' = timers (+) SetToBag({UiContent(TypedPost)})
             ELSE /\ ui' = IF ui.mounted
                           THEN Commit([ui EXCEPT
                                   !.error = "Failed to process HTML. Please check the format.",
                                   !.loading = FALSE])
                           ELSE ui
                  /\ UNCHANGED timers
    /\ UNCHANGED <<modelCalls, restarted, applies, lastAnalysis>>
    /\ UiFrame

\* the timer fires: analyzeBlog(content) up to its await
analyzeBlog ==
    /\ \E content \in BagToSet(timers) :
          /\ timers' = timers (-) SetToBag({content})
          /\ net' = net (+) SetToBag({UiRequest("analyze", content, <<>>)})
    /\ ui' = IF ui.mounted THEN Commit([ui EXCEPT !.loading = TRUE]) ELSE ui
    /\ UNCHANGED <<modelCalls, restarted, applies, lastAnalysis>>
    /\ UiFrame

NewId == FreshId(LiveIds(ui, lastAnalysis))

\* analyzeBlog after its await: the analyze-blog request settles
AnalyzeSettles ==
    /\ \E req \in BagToSet(net), outcome \in Settlements :
          /\ req.kind = "analyze"
          /\ net' = net (-) SetToBag({req})
          /\ \E n \in AnalyzeModelCalls(req, outcome) :
                modelCalls' = IF restarted THEN modelCalls ELSE modelCalls + n
          /\ IF outcome = "ok"
             THEN \E ps \in ProposalLists(req.content, NewId) :
                     /\ ui' = IF ui.mounted
                              THEN Commit([ui EXCEPT
                                      !.analysis = [id |-> NewId, sections |-> req.content.h2],
                                      !.proposals = [i \in 1..Len(ps) |->
                                                        [ps[i] EXCEPT !.approved = FALSE]],
                                      !.step = "approval",
                                      !.loading = FALSE])
                              ELSE ui
                     /\ lastAnalysis' = IF ui.mounted THEN NewId ELSE lastAnalysis
             ELSE /\ ui' = IF ui.mounted
                           THEN Commit([ui EXCEPT
                                   !.error = ErrorText(outcome, "Failed to analyze blog",
                                                       "Failed to analyze blog"),
                                   !.loading = FALSE])
                           ELSE ui
                  /\ UNCHANGED lastAnalysis
    /\ UNCHANGED <<timers, restarted, applies>>
    /\ UiFrame

\* the checkbox of a proposal: onChange={() => toggleProposal(proposal.id)}
toggleProposal ==
    /\ ui.mounted /\ ui.step = "approval" /\ ui.analysis # NoUiAnalysis
    /\ \E k \in 1..Len(ui.proposals) :
          ui' = Commit([ui EXCEPT !.proposals =
                   [i \in 1..Len(ui.proposals) |->
                       IF ui.proposals[i].id = ui.proposals[k].id
                       THEN [ui.proposals[i] EXCEPT !.approved = ~@]
                       ELSE ui.proposals[i]]])
    /\ UNCHANGED <<net, timers, modelCalls, restarted, applies, lastAnalysis>>
    /\ UiFrame

\* variant of handleApplyChanges: the proposals are sent unfiltered
handleApplyChanges_Unfiltered ==
    LET approvedProposals == ui.proposals IN
    /\ IF Len(approvedProposals) = 0
       THEN /\ ui' = Commit([ui EXCEPT
                        !.error = "Please approve at least one change to proceed"])
            /\ UNCHANGED <<net, applies>>
       ELSE /\ MayIssue /\ applies < MaxApplies
            /\ ui' = Commit([ui EXCEPT !.loading = TRUE, !.error = "",
                                       !.step = "generating"])
            /\ net' = net (+) SetToBag({UiRequest("apply", ui.blogContent,
                                                    approvedProposals)})
            /\ applies' = applies + 1
    /\ UNCHANGED <<timers, modelCalls, restarted, lastAnalysis>>
    /\ UiFrame

\* handleApplyChanges up to its await
handleApplyChanges ==
    LET approvedProposals == ApprovedOf(ui.proposals) IN
    /\ IF Len(approvedProposals) = 0
       THEN /\ ui' = Commit([ui EXCEPT
                        !.error = "Please approve at least one change to proceed"])
            /\ UNCHANGED <<net, applies>>
       ELSE /\ MayIssue /\ applies < MaxApplies
            /\ ui' = Commit([ui EXCEPT !.loading = TRUE, !.error = "",
                                       !.step = "generating"])
            /\ net' = net (+) SetToBag({UiRequest("apply", ui.blogContent,
                                                    approvedProposals)})
            /\ applies' = applies + 1
    /\ UNCHANGED <<timers, modelCalls, restarted, lastAnalysis>>
    /\ UiFrame

\* the button "Apply n Approved Changes": onClick={handleApplyChanges}
\* disabled={loading || proposals.filter(p => p.approved).length === 0}
ClickApplyChanges ==
    /\ ui.mounted /\ ui.step = "approval" /\ ui.analysis # NoUiAnalysis
    /\ ~ui.loading
    /\ Len(ApprovedOf(ui.proposals)) # 0
    /\ handleApplyChanges

\* handleApplyChanges after its await: the apply-changes request settles
ApplySettles ==
    /\ \E req \in BagToSet(net), outcome \in Settlements :
          /\ req.kind = "apply"
          /\ net' = net (-) SetToBag({req})
          /\ \E n \in ApplyModelCalls(req, outcome) :
                modelCalls' = IF restarted THEN modelCalls ELSE modelCalls + n
          /\ ui' = IF ~ui.mounted THEN ui
                   ELSE IF outcome = "ok"
                   THEN Commit([ui EXCEPT !.refreshedContent = "refreshed",
                                          !.step = "complete",
                                          !.loading = FALSE])
                   ELSE Commit([ui EXCEPT
                           !.error = ErrorText(outcome, "Failed to apply changes",
                                               "Failed to apply changes"),
                           !.loading = FALSE])
    /\ UNCHANGED <<timers, restarted, applies, lastAnalysis>>
    /\ UiFrame

\* the buttons "Cancel" (step 'approval') and "Refresh Another Blog" (step
\* 'complete'): onClick={handleReset}
handleReset ==
    /\ ui.mounted
    /\ \/ ui.step = "approval" /\ ui.analysis # NoUiAnalysis
       \/ ui.step = "complete"
    /\ ui' = Commit([ui EXCEPT !.step = "input", !.blogUrl = "",
                               !.blogContent = NoContent,
                               !.analysis = NoUiAnalysis, !.proposals = <<>>,
                               !.refreshedContent = "", !.error = ""])
    /\ modelCalls' = 0
    /\ restarted' = TRUE
    /\ applies' = 0
    /\ UNCHANGED <<net, timers, lastAnalysis>>
    /\ UiFrame

\* unnamed/part_003, the button "Try Different Changes" of the step
\* 'complete': onClick={handleTryDifferentChanges}
handleTryDifferentChanges ==
    /\ uiApp = "part_003"
    /\ ui.mounted /\ ui.step = "complete"
    /\ ui' = Commit([ui EXCEPT !.step = "approval", !.refreshedContent = ""])
    /\ UNCHANGED <<net, timers, modelCalls, restarted, applies, lastAnalysis>>
    /\ UiFrame

\* the button of the error banner: onClick={() => setError('')}
DismissError ==
    /\ ui.mounted /\ Truthy(ui.error)
    /\ ui' = Commit([ui EXCEPT !.error = ""])
    /\ UNCHANGED <<net, timers, modelCalls, restarted, applies, lastAnalysis>>
    /\ UiFrame

NextUI ==
    \/ SetInputMode
    \/ SetBlogUrl
    \/ SetHtmlInput
    \/ ClickFetchBlog
    \/ EnterFetchBlog
    \/ FetchSettles
    \/ ClickHtmlInput
    \/ ImportSettles
    \/ analyzeBlog
    \/ AnalyzeSettles
    \/ toggleProposal
    \/ ClickApplyChanges
    \/ ApplySettles
    \/ handleReset
    \/ handleTryDifferentChanges
    \/ DismissError

SpecUI == InitUI /\ [][NextUI]_vars
\* =================================================================== claims
StructureProposals(list) == SelectSeq(list, LAMBDA p : p.type = "structure")
LinkFixProposals(list) == SelectSeq(list, LAMBDA p : p.type = "link-fixes")
SomeBroken(evals) == \E i \in 1..Len(evals) : ~evals[i].working

\* The sections named by the merge-type suggestions of a structureAnalysis,
\* counted without the generator's own helper.
MergeNamed(sa) ==
    LET idx == {i \in 1..Len(sa.suggestions) :
                    sa.suggestions[i].action = "merge"
                    /\ sa.suggestions[i].affKind = "array"}
        RECURSIVE Sum(_)
        Sum(S) == IF S = {} THEN 0
                  ELSE LET i == CHOOSE x \in S : TRUE
                       IN  Len(sa.suggestions[i].affectedSections) + Sum(S \ {i})
    IN  Sum(idx)

\* C1 (aggressiveness guardrail): whenever generateProposals returns for a
\* structureAnalysis whose merge-type suggestions name more than 60% of
\* sections.length sections, the result holds no proposal of type
\* 'structure', and it still holds the single 'link-fixes' proposal when
\* some link evaluation has working=false.
C1_GuardrailBlocksStructure ==
    (pc = "done" /\ ~proposals.threw
        /\ 10 * MergeNamed(genInput) > 6 * Len(sections))
    => /\ Len(StructureProposals(proposals.list)) = 0
       /\ (SomeBroken(linkEvals) => Len(LinkFixProposals(proposals.list)) = 1)

\* C2 (analyzer fail-closed): for a reply text without a {...} span, or whose
\* {...} span is not JSON, analyzeStructure does not raise and returns the
\* safe default: needsRestructuring false, no suggestions, the section count
\* and an explanatory reason.
C2_FailClosedOnUnparseableReply ==
    (pc = "analyzed" /\ reply.transport = "ok"
        /\ reply.shape \in {"noBrace", "badSpan"})
    => /\ ~analysis.threw
       /\ analysis.needsRestructuring = FALSE
       /\ analysis.suggKind = "array" /\ analysis.suggestions = <<>>
       /\ analysis.currentSectionCount = Len(sections)
       /\ analysis.restructuringReason # ""
\* -------------------------------------------------- link evaluator claims
\* the outcome of the probe that settled the link at position pos
LastOutcome(pos) ==
    LET ks == {k \in 1..Len(probes) : probes[k].pos = pos}
        last == CHOOSE k \in ks : \A j \in ks : j <= k
    IN  probes[last].outcome

LastVerb(pos) ==
    LET ks == {k \in 1..Len(probes) : probes[k].pos = pos}
        last == CHOOSE k \in ks : \A j \in ks : j <= k
    IN  probes[last].verb

\* C3 (cap): evaluateLinks returns exactly min(n, 20) results, result i
\* carries the id and url of input link i, and no probe is ever issued for
\* a link beyond the first 20.
C3_CapInvariant ==
    /\ Len(evaluations) <= 20
    /\ \A i \in 1..Len(evaluations) :
          evaluations[i].id = links[i].id /\ evaluations[i].url = links[i].url.text
    /\ \A k \in 1..Len(probes) : probes[k].pos <= 20
    /\ pending.pos <= 20
    /\ lcPc = "returned" =>
          Len(evaluations) = (IF Len(links) < 20 THEN Len(links) ELSE 20)

C3_Witness ==
    /\ lcPc = "returned"
    /\ Len(links) > 20
    /\ Len(evaluations) = 20
    /\ \E i \in 1..Len(evaluations) : ~evaluations[i].working

EscalatingHead(k) ==
    /\ probes[k].verb = "HEAD"
    /\ ~isSpecialUrl(links[probes[k].pos].url)
    /\ ~probes[k].outcome.threw
    /\ probes[k].outcome.status \in {405, 403, 401}

\* C4 (escalation): for an ordinary link whose HEAD probe returns 405, 403
\* or 401 a fallback GET is issued, and the link's result has method 'GET',
\* whatever the GET returns or throws.
C4_EscalationInvariant ==
    \A k \in 1..Len(probes) :
        EscalatingHead(k) =>
            /\ \/ (pending.verb = "GET" /\ pending.pos = probes[k].pos)
               \/ \E j \in (k + 1)..Len(probes) :
                      probes[j].verb = "GET" /\ probes[j].pos = probes[k].pos
            /\ Len(evaluations) >= probes[k].pos =>
                   evaluations[probes[k].pos].method = "GET"

C4_Witness ==
    \E k \in 1..Len(probes) :
        /\ EscalatingHead(k)
        /\ probes[k].outcome.status = 401
        /\ Len(evaluations) >= probes[k].pos
        /\ LastVerb(probes[k].pos) = "GET"
        /\ LastOutcome(probes[k].pos).threw
        /\ evaluations[probes[k].pos].method = "GET"

SettledBy(pos, verb, statuses) ==
    /\ LastVerb(pos) = verb
    /\ ~LastOutcome(pos).threw
    /\ LastOutcome(pos).status \in statuses

\* C5 as stated (special-URL normalization): every special URL whose
\* settling probe (HEAD or fallback GET) returned 403, 401 or 416 is reported
\* with status 200 and working=true.
C5_AllSpecialNormalized ==
    \A pos \in 1..Len(evaluations) :
        (isSpecialUrl(links[pos].url)
            /\ ~LastOutcome(pos).threw
            /\ LastOutcome(pos).status \in {403, 401, 416})
        => (evaluations[pos].status = 200 /\ evaluations[pos].working)

\* the cases of a 403/401/416 on a special URL that the checker accepts
AcceptedRestricted(pos) ==
    \/ isGoogleService(links[pos].url) /\ SettledBy(pos, "HEAD", {403})
    \/ isGoogleService(links[pos].url) /\ SettledBy(pos, "GET", {403, 401})
    \/ SettledBy(pos, "GET", {416})

\* C5 as amended: a special URL is reported with status 200 and working=true
\* when its HEAD returned 403 on a Google-service URL, when its fallback GET
\* returned 403 or 401 on a Google-service URL, or when its fallback GET
\* returned 416; any other 403, 401 or 416 (a 401 or 416 on the HEAD, a 403
\* or 401 GET on a non-Google special URL) is reported with that status and
\* working=false.
C5_GoogleOr416Normalized ==
    \A pos \in 1..Len(evaluations) :
        isSpecialUrl(links[pos].url) =>
            /\ AcceptedRestricted(pos) =>
                   (evaluations[pos].status = 200 /\ evaluations[pos].working)
            /\ (~LastOutcome(pos).threw
                    /\ LastOutcome(pos).status \in {403, 401, 416}
                    /\ ~AcceptedRestricted(pos)) =>
                   (evaluations[pos].status = LastOutcome(pos).status
                        /\ ~evaluations[pos].working)

C5_Witness ==
    \E pos \in 1..Len(evaluations) :
        /\ isSpecialUrl(links[pos].url)
        /\ isGoogleService(links[pos].url)
        /\ SettledBy(pos, "GET", {401})
        /\ evaluations[pos].status = 200
        /\ evaluations[pos].working

\* C6 (per-link containment): evaluateLinks never raises and yields one
\* result per checked link; a link whose last probe threw gets
\* working=false, status 0 and a non-null issue; and the links of the
\* steady host get the same result whatever happened to another link.
C6_FailureContained ==
    /\ lcPc # "threw"
    /\ lcPc = "returned" =>
          Len(evaluations) = (IF Len(links) < 20 THEN Len(links) ELSE 20)
    /\ \A pos \in 1..Len(evaluations) :
          /\ LastOutcome(pos).threw =>
                 /\ ~evaluations[pos].working
                 /\ evaluations[pos].status = 0
                 /\ evaluations[pos].issue # NullIssue
          /\ links[pos].url = SteadyUrl =>
                 evaluations[pos] = [id |-> links[pos].id, url |-> SteadyUrl.text,
                                     status |-> 200, working |-> TRUE,
                                     issue |-> NullIssue, method |-> "HEAD"]

C6_Witness ==
    /\ lcPc = "returned"
    /\ \E pos \in 1..Len(evaluations) :
          /\ pos < Len(evaluations)
          /\ LastVerb(pos) = "GET"
          /\ LastOutcome(pos).threw
          /\ evaluations[pos].status = 0
          /\ evaluations[pos + 1].working

\* ------------------------------------------------------- analyzer claims
\* the text of a proposal names heading h
Names(p, h) == h = "" \/ h \in Range(p.title) \/ h \in Range(p.description)

\* the reply's only suggestion is a high-confidence merge of two distinct
\* in-range sections
ScenarioA ==
    /\ Len(sections) >= 2
    /\ reply.transport = "ok" /\ reply.shape = "object"
    /\ reply.suggKind = "array" /\ Len(reply.suggestions) = 1
    /\ LET s == reply.suggestions[1] IN
          /\ s.action = "merge" /\ s.confidenceLevel = "high"
          /\ s.affKind = "array" /\ Len(s.affectedSections) = 2
          /\ s.affectedSections[1] # s.affectedSections[2]
          /\ \A k \in 1..2 : s.affectedSections[k] \in 0..(Len(sections) - 1)

\* C7 (scenario A generalised): for at least two sections and a reply whose
\* only suggestion is a high-confidence merge of two distinct in-range
\* sections [a,b], analyzeStructure followed by generateProposals yields
\* exactly one 'structure' proposal, with affectedSections [a,b] and a title
\* or description naming the headings of a and b.
C7_ScenarioAOneProposal ==
    (pc = "done" /\ call = "pipeline" /\ ScenarioA)
    => /\ ~proposals.threw
       /\ Len(StructureProposals(proposals.list)) = 1
       /\ LET p == StructureProposals(proposals.list)[1]
              s == reply.suggestions[1]
          IN  /\ p.affectedSections = s.affectedSections
              /\ Names(p, sections[s.affectedSections[1] + 1])
              /\ Names(p, sections[s.affectedSections[2] + 1])

RawSuggestions == IF reply.suggKind = "array" THEN reply.suggestions ELSE <<>>

AnalysisReturned == pc # "start" /\ call # "direct" /\ ~analysis.threw

\* C8 (validation completeness, strict variant): no suggestion whose
\* affectedSections is not an array of exactly 2 entries appears in the
\* suggestions returned by analyzeStructure.
C8_OnlyPairsReturned ==
    AnalysisReturned =>
        \A i \in 1..Len(analysis.suggestions) :
            /\ analysis.suggestions[i].affKind = "array"
            /\ Len(analysis.suggestions[i].affectedSections) = 2

C8_Witness ==
    /\ AnalysisReturned
    /\ Len(analysis.suggestions) >= 1
    /\ \E i \in 1..Len(RawSuggestions) :
          /\ RawSuggestions[i].affKind = "array"
          /\ Len(RawSuggestions[i].affectedSections) > 2

ValidIndices(s) ==
    \A k \in 1..Len(s.affectedSections) :
        s.affectedSections[k] \in 0..(Len(sections) - 1)

\* C9 (index validity): every affectedSections entry of every suggestion
\* returned by analyzeStructure, and of every structure proposal returned by
\* generateProposals, is an index i with 0 <= i < sections.length.
C9_IndicesValid ==
    /\ AnalysisReturned =>
          \A i \in 1..Len(analysis.suggestions) : ValidIndices(analysis.suggestions[i])
    /\ (pc = "done" /\ call = "pipeline" /\ ~proposals.threw) =>
          \A i \in 1..Len(proposals.list) :
              proposals.list[i].type = "structure" => ValidIndices(proposals.list[i])

NamesPair(s) == s.affKind = "array" /\ Len(s.affectedSections) = 2

SamePair(s, t) == Range(s.affectedSections) = Range(t.affectedSections)

\* C10 (duplicate-pair suppression): no two suggestions returned by
\* analyzeStructure name the same unordered pair of section indices, and
\* each returned suggestion is the earliest raw suggestion naming its pair.
C10_NoDuplicatePairs ==
    AnalysisReturned =>
        /\ \A i, j \in 1..Len(analysis.suggestions) :
              i # j => ~SamePair(analysis.suggestions[i], analysis.suggestions[j])
        /\ \A i \in 1..Len(analysis.suggestions) :
              \E k \in 1..Len(RawSuggestions) :
                  /\ RawSuggestions[k] = analysis.suggestions[i]
                  /\ \A m \in 1..(k - 1) :
                        ~(NamesPair(RawSuggestions[m])
                            /\ SamePair(RawSuggestions[m], analysis.suggestions[i]))

C10_Witness ==
    /\ AnalysisReturned
    /\ Len(RawSuggestions) >= 2
    /\ NamesPair(RawSuggestions[1]) /\ NamesPair(RawSuggestions[2])
    /\ SamePair(RawSuggestions[1], RawSuggestions[2])
    /\ RawSuggestions[1].affectedSections # RawSuggestions[2].affectedSections
    /\ analysis.suggestions = <<RawSuggestions[1]>>
\* C11 (needsRestructuring recomputed): in every analysis returned by
\* analyzeStructure, needsRestructuring is true exactly when the returned
\* suggestions sequence is non-empty, whatever flag the model reported.
C11_FlagRecomputed ==
    AnalysisReturned =>
        (analysis.needsRestructuring <=> Len(analysis.suggestions) > 0)

Labelled(s) == s.confidenceLevel \in {"high", "medium"}

\* C12 (confidence filter, confidence-labelling variant): the suggestions
\* returned by analyzeStructure are exactly the 'high' or 'medium'
\* suggestions of the reply, in order ('low' and unlabelled ones are
\* discarded, every 'high' or 'medium' one is kept), and every structure
\* proposal returned by generateProposals has confidenceLevel 'high' or
\* 'medium'.
C12_ConfidenceFilter ==
    /\ AnalysisReturned =>
          analysis.suggestions = SelectSeq(RawSuggestions, Labelled)
    /\ (pc = "done" /\ ~proposals.threw) =>
          \A i \in 1..Len(proposals.list) :
              proposals.list[i].type = "structure" =>
                  proposals.list[i].confidenceLevel \in {"high", "medium"}

C12_Witness ==
    /\ pc = "done" /\ call = "direct" /\ ~proposals.threw
    /\ Len(genInput.suggestions) = 2
    /\ genInput.suggestions[1].confidenceLevel = "none"
    /\ genInput.suggestions[2].confidenceLevel = "medium"
    /\ Len(StructureProposals(proposals.list)) = 1
    /\ StructureProposals(proposals.list)[1].confidenceLevel = "medium"

\* the positions of the evaluations with working=false
BrokenPositions(evals) == {i \in 1..Len(evals) : ~evals[i].working}

\* C13 (link-fixes aggregation): generateProposals returns exactly one
\* 'link-fixes' proposal if some link evaluation has working=false and none
\* otherwise; its affectedLinks is the subsequence of the evaluations with
\* working=false, in input order, and its description carries that count.
C13_LinkFixesAggregation ==
    (pc = "done" /\ ~proposals.threw) =>
        LET lf == LinkFixProposals(proposals.list)
            bp == BrokenPositions(linkEvals)
        IN  IF bp = {} THEN Len(lf) = 0
            ELSE /\ Len(lf) = 1
                 /\ Len(lf[1].affectedLinks) = Cardinality(bp)
                 /\ \A k \in 1..Len(lf[1].affectedLinks) :
                       /\ lf[1].affectedLinks[k].id \in bp
                       /\ lf[1].affectedLinks[k] = linkEvals[lf[1].affectedLinks[k].id]
                       /\ \A m \in 1..(k - 1) :
                             lf[1].affectedLinks[m].id < lf[1].affectedLinks[k].id
                 /\ ToString(Cardinality(bp)) \in Range(lf[1].description)

C13_Witness ==
    /\ pc = "done" /\ ~proposals.threw
    /\ Len(linkEvals) = 2
    /\ BrokenPositions(linkEvals) = {1, 2}
    /\ Len(StructureProposals(proposals.list)) >= 1
    /\ Len(LinkFixProposals(proposals.list)) = 1
    /\ Len(LinkFixProposals(proposals.list)[1].affectedLinks) = 2

\* C14 (proposal identity): within one result of generateProposals all ids
\* are pairwise distinct, at most one proposal has id 'proposal-links' and it
\* comes first, and each structure proposal has id 'proposal-structure-i'
\* where i is the 0-based position of its suggestion in
\* structureAnalysis.suggestions, structure proposals appearing in
\* suggestion order.
C14_ProposalIdentity ==
    (pc = "done" /\ ~proposals.threw) =>
        LET list == proposals.list IN
        /\ \A i, j \in 1..Len(list) : i # j => list[i].id # list[j].id
        /\ \A i \in 1..Len(list) : list[i].id = "proposal-links" => i = 1
        /\ \E pos \in [1..Len(list) -> 0..Len(genInput.suggestions)] :
              \A i \in 1..Len(list) :
                  list[i].type = "structure" =>
                      /\ pos[i] >= 1
                      /\ list[i].id = "proposal-structure-" \o ToString(pos[i] - 1)
                      /\ list[i].action = genInput.suggestions[pos[i]].action
                      /\ list[i].affectedSections =
                             genInput.suggestions[pos[i]].affectedSections
                      /\ list[i].newHeading = genInput.suggestions[pos[i]].newHeading
                      /\ \A j \in 1..(i - 1) :
                            list[j].type = "structure" => pos[j] < pos[i]
\* ------------------------------------------------------ applyChanges claims
ApplyRequested == request.endpoint = "apply" /\ ~MissingApplyData(request)

ApprovedTypes ==
    IF request.approvedKind = "array"
    THEN {request.approved[i].type : i \in 1..Len(request.approved)} ELSE {}

\* the urls of the affected links of the approved link-fixes proposal
ApprovedUrls ==
    IF "link-fixes" \in ApprovedTypes
    THEN Range(FirstOfType(request.approved, "link-fixes").affectedLinks) ELSE {}

\* C15 (link-fix-only apply): when approvedProposals contains no proposal of
\* type 'structure', applyChanges issues no model call and returns the
\* parsed document in which every anchor whose href equals the url of an
\* affected link of the approved link-fixes proposal has href '#' and the
\* class 'broken-link-removed', and every other anchor keeps its href.
C15_LinkFixOnlyApply ==
    (ApplyRequested /\ request.approvedKind = "array"
        /\ "structure" \notin ApprovedTypes /\ srvPc # "received")
    => /\ calls.model = 0
       /\ srvPc = "responded"
       /\ applyResult.kind = "dom"
       /\ Len(applyResult.dom) = Len(request.doc)
       /\ \A i \in 1..Len(request.doc) :
             IF request.doc[i].href \in ApprovedUrls
             THEN /\ applyResult.dom[i].href = "#"
                  /\ MarkerClass \in applyResult.dom[i].classes
             ELSE applyResult.dom[i].href = request.doc[i].href

\* C16 (structural rewrite replaces the DOM output): whenever
\* approvedProposals contains a proposal of type 'structure', the value
\* returned by applyChanges is the fence-stripped, trimmed model reply,
\* whether or not a link-fixes proposal was approved too; the edited
\* document is not part of it.
C16_RewriteReplacesDom ==
    (ApplyRequested /\ "structure" \in ApprovedTypes
        /\ applyResult.kind \in {"dom", "text"})
    => /\ applyResult.kind = "text"
       /\ applyResult.dom = <<>>
       /\ applyReply.transport = "ok"
       /\ applyResult.text = Trim(StripCloseFence(StripOpenFence(
                                 StripHtmlFence(applyReply.text))))

C16_Witness ==
    /\ ApplyRequested /\ ApprovedTypes = {"structure", "link-fixes"}
    /\ dom # request.doc
    /\ applyResult.kind = "text"
    /\ applyReply.text = <<Fence, "\n", Markup, "\n", Fence>>
    /\ applyResult.text = <<Markup>>

\* the reply is x wrapped as [fence]html newline x newline [fence]
FencedHtml ==
    /\ applyResult.kind = "text"
    /\ Len(applyReply.text) >= 5
    /\ SubSeq(applyReply.text, 1, 3) = <<Fence, "html", "\n">>
    /\ SubSeq(applyReply.text, Len(applyReply.text) - 1, Len(applyReply.text))
           = <<"\n", Fence>>

InnerContent == SubSeq(applyReply.text, 4, Len(applyReply.text) - 2)

PlainInner(x) ==
    x = <<>> \/ (~IsSpace(x[1]) /\ ~IsSpace(x[Len(x)]) /\ x[1] # Fence)

C18_ApplyFailuresNotMasked ==
    (request.endpoint = "apply" /\ srvPc = "responded") =>
        /\ applyReply.transport = "error" => applyResult = ThrownError("AI API Error")
        /\ applyResult.kind = "error" =>
              /\ response.status = 500
              /\ response.error = "Failed to apply changes"
              /\ response.details = applyResult.error
        /\ response.status = 200 =>
              /\ applyResult.kind \in {"dom", "text"}
              /\ applyReply.transport # "error"
              /\ response.data.refreshedContent = applyResult

C18_Witness ==
    /\ request.endpoint = "apply" /\ srvPc = "responded"
    /\ applyReply.transport = "error"
    /\ dom # request.doc
    /\ response.status = 500

\* -------------------------------------------------------- controller claims
InputError ==
    \/ request.endpoint = "fetch" /\ request.urlKind # "present"
    \/ request.endpoint = "analyze" /\ request.contentKind # "html"
    \/ request.endpoint = "apply"
          /\ (request.contentKind # "html" \/ request.approvedKind = "absent")

\* C19 (input errors have no side effects): a fetch-blog request without
\* url, an analyze-blog request without content and an apply-changes request
\* without content or without approvedProposals answer 400 and invoke none
\* of the outbound fetch, evaluateLinks, analyzeStructure, generateProposals
\* or applyChanges; an apply-changes request with an empty approvedProposals
\* array is not an input error.
C19_InputErrorsNoSideEffects ==
    /\ InputError =>
          /\ calls = NoCalls
          /\ srvPc = "responded" => response.status = 400
    /\ (request.endpoint = "apply" /\ request.contentKind = "html"
            /\ request.approvedKind = "array" /\ request.approved = <<>>
            /\ srvPc = "responded")
       => (response.status = 200 /\ calls.applyChanges = 1)

C19_Witness ==
    /\ request.endpoint = "apply" /\ request.contentKind = "html"
    /\ request.approvedKind = "absent"
    /\ srvPc = "responded"
    /\ response.status = 400

AnalysisRaised == calls.analyzeStructure = 1 /\ analysis.threw

ProbesOf(pos) == {k \in 1..Len(probes) : probes[k].pos = pos}

\* C23 (sequential probing): during evaluateLinks at most one probe is
\* outstanding; the first probe for link i+1 is issued only after the result
\* for link i has been appended, and the fallback GET of a link is issued
\* only after that link's HEAD probe has completed or failed.
C23_SequentialProbing ==
    /\ (pending # NoProbe) <=> (lcPc \in {"head", "get"})
    /\ pending # NoProbe => pending.pos = Len(evaluations) + 1
    /\ lcPc = "head" => (pending.verb = "HEAD" /\ ProbesOf(pending.pos) = {})
    /\ lcPc = "get" =>
          /\ pending.verb = "GET"
          /\ Len(probes) > 0
          /\ probes[Len(probes)].pos = pending.pos
          /\ probes[Len(probes)].verb = "HEAD"
    /\ \A k \in 1..Len(probes) :
          /\ probes[k].pos <= Len(evaluations) + 1
          /\ probes[k].pos = Len(evaluations) + 1 => lcPc \in {"get", "threw"}
          /\ \A j \in 1..(k - 1) : probes[j].pos <= probes[k].pos
          /\ IF probes[k].verb = "HEAD"
             THEN \A j \in 1..(k - 1) : probes[j].pos < probes[k].pos
             ELSE /\ k > 1
                  /\ probes[k - 1].pos = probes[k].pos
                  /\ probes[k - 1].verb = "HEAD"

C23_Witness ==
    /\ lcPc = "head"
    /\ pending.pos = 3
    /\ Len(evaluations) = 2
    /\ Len(probes) = 3
    /\ probes[2].verb = "GET"
    /\ \E k \in 1..Len(probes) : probes[k].outcome.threw

NetworkCodes == {"ECONNREFUSED", "ECONNRESET", "ETIMEDOUT", "ECONNABORTED"}

ThrownHead(k) == probes[k].verb = "HEAD" /\ probes[k].outcome.threw

HasGet(pos) ==
    \/ (pending.verb = "GET" /\ pending.pos = pos)
    \/ \E j \in ProbesOf(pos) : probes[j].verb = "GET"

\* C24 (network-failure escalation): when the HEAD probe of a link throws
\* with code ECONNREFUSED, ECONNRESET, ETIMEDOUT or ECONNABORTED a fallback
\* GET is issued and decides the result (method GET or GET-SPECIAL); when it
\* throws with another code no GET is issued and the result is status 0,
\* working=false, method HEAD or HEAD-SPECIAL; a link whose last probe timed
\* out is not reported as working.
C24_NetworkEscalation ==
    /\ \A k \in 1..Len(probes) :
          ThrownHead(k) =>
             LET pos == probes[k].pos IN
             IF probes[k].outcome.code \in NetworkCodes
             THEN /\ HasGet(pos)
                  /\ Len(evaluations) >= pos =>
                        /\ LastVerb(pos) = "GET"
                        /\ evaluations[pos].method =
                              (IF isSpecialUrl(links[pos].url) THEN "GET-SPECIAL" ELSE "GET")
                        /\ evaluations[pos] =
                              (IF isSpecialUrl(links[pos].url)
                               THEN fallbackToGetSpecial(links[pos], LastOutcome(pos))
                               ELSE fallbackToGet(links[pos], LastOutcome(pos))).result
             ELSE /\ ~HasGet(pos)
                  /\ Len(evaluations) >= pos
                  /\ evaluations[pos].status = 0
                  /\ ~evaluations[pos].working
                  /\ evaluations[pos].method =
                        (IF isSpecialUrl(links[pos].url) THEN "HEAD-SPECIAL" ELSE "HEAD")
    /\ \A pos \in 1..Len(evaluations) :
          (LastOutcome(pos).threw /\ LastOutcome(pos).code \in {"ETIMEDOUT", "ECONNABORTED"})
             => ~evaluations[pos].working

C24_Witness ==
    \E k \in 1..Len(probes) :
        /\ ThrownHead(k)
        /\ probes[k].outcome.code = "ETIMEDOUT"
        /\ Len(evaluations) >= probes[k].pos
        /\ evaluations[probes[k].pos].method = "GET"
        /\ evaluations[probes[k].pos].working

\* the direct-view form of a Drive share URL
DirectView(url) == "https://drive.google.com/file/d/" \o url.fileId \o "/view"

ProbeTargetOk(pos, target) ==
    LET url == links[pos].url IN
    /\ (url.host = "drive.google.com" /\ url.fileId # "") => target = DirectView(url)
    /\ (url.host = "drive.google.com" /\ url.fileId = "") => target = url.text

\* C25 (Drive canonicalisation): every probe issued for a drive.google.com
\* link holding /file/d/<id>, the HEAD and any fallback GET, targets
\* https://drive.google.com/file/d/<id>/view; the probes of a Drive URL
\* without that pattern target the original url; the url field of a result
\* is the original url.
C25_DriveCanonical ==
    /\ \A k \in 1..Len(probes) : ProbeTargetOk(probes[k].pos, probes[k].target)
    /\ pending # NoProbe => ProbeTargetOk(pending.pos, pending.target)
    /\ \A pos \in 1..Len(evaluations) : evaluations[pos].url = links[pos].url.text

\* C28 (status/working consistency): in every result of evaluateLinks
\* working is true exactly when the reported status lies in [200, 400);
\* every result with working=false has a non-null issue; status 0 is
\* reported exactly when the settling probe threw.
C28_StatusWorkingConsistent ==
    \A pos \in 1..Len(evaluations) :
        /\ evaluations[pos].working <=> Ok2xx3xx(evaluations[pos].status)
        /\ ~evaluations[pos].working => evaluations[pos].issue # NullIssue
        /\ (evaluations[pos].status = 0) <=> LastOutcome(pos).threw

C28_Witness ==
    /\ lcPc = "returned"
    /\ \E pos \in 1..Len(evaluations) :
          /\ isSpecialUrl(links[pos].url)
          /\ SettledBy(pos, "HEAD", {401})
          /\ evaluations[pos].status = 401
          /\ ~evaluations[pos].working
          /\ evaluations[pos].issue = "Authentication required"

\* ------------------------------------------------ analyzer claims, continued
\* C26 (keep is never user-facing): whatever structureAnalysis is passed to
\* generateProposals, directly or from analyzeStructure, no returned proposal
\* has action 'keep'.
C26_KeepNeverProposed ==
    (pc = "done" /\ ~proposals.threw) =>
        \A i \in 1..Len(proposals.list) : proposals.list[i].action # "keep"

\* the configured cap of sections one merge may name
MergeCap == IF variant = "relaxed" THEN MergeCapRelaxed ELSE 2

\* C27 (merge cardinality): every structure proposal with action 'merge'
\* returned by generateProposals names at least 2 and at most the configured
\* cap of sections (2 in the strict variant, 3 in the relaxed variant).
C27_MergeCardinality ==
    (pc = "done" /\ ~proposals.threw) =>
        \A i \in 1..Len(proposals.list) :
            (proposals.list[i].type = "structure" /\ proposals.list[i].action = "merge")
            => /\ proposals.list[i].affKind = "array"
               /\ Len(proposals.list[i].affectedSections) >= 2
               /\ Len(proposals.list[i].affectedSections) <= MergeCap

\* ---- App
\* the apply-changes requests a step sends
SentApply == { req \in BagToSet(net') :
                  req.kind = "apply" /\ CopiesIn(req, net') > CopiesIn(req, net) }

ApplySendsAfterApproval ==
    \A req \in SentApply :
        /\ lastAnalysis # 0
        /\ ui.analysis.id = lastAnalysis
        /\ Len(req.approvedProposals) >= 1
        /\ \A i \in 1..Len(ui.proposals) : ui.proposals[i].of = lastAnalysis
        /\ \A i \in 1..Len(ui.proposals) :
              ui.proposals[i].approved
              <=> \E k \in 1..Len(req.approvedProposals) :
                      req.approvedProposals[k] = ui.proposals[i]

ProposalsStartUnapproved ==
    lastAnalysis' # lastAnalysis
    => \A i \in 1..Len(ui'.proposals) :
          /\ ~ui'.proposals[i].approved
          /\ ui'.proposals[i].of = lastAnalysis'

OnlyApprovedUnderWay ==
    \A req \in BagToSet(net) :
        req.kind = "apply"
        => /\ Len(req.approvedProposals) >= 1
           /\ \A k \in 1..Len(req.approvedProposals) : req.approvedProposals[k].approved

\* C21: an apply-changes request is sent only after an analysis has been
\* taken, only with at least one approved proposal, and it carries exactly
\* the proposals of the latest analysis whose approved flag is set at that
\* moment; the proposals of an analysis start unapproved, and no unapproved
\* proposal is ever under way in an apply-changes request.
C21_ApprovalPrecedesApplication ==
    /\ []OnlyApprovedUnderWay
    /\ [][ApplySendsAfterApproval /\ ProposalsStartUnapproved]_vars

\* an apply-changes request is under way that carries the one approved
\* proposal of an analysis with two proposals, the other left unapproved
C21_Witness ==
    /\ ui.mounted /\ ui.step = "generating"
    /\ Len(ui.proposals) = 2
    /\ \E req \in BagToSet(net) :
          /\ req.kind = "apply"
          /\ req.approvedProposals = ApprovedOf(ui.proposals)
          /\ Len(req.approvedProposals) = 1
          /\ req.approvedProposals[1].of = lastAnalysis

\* C22: the backend issues at most two generative-model calls for one
\* workflow, from the submission of a post to the step 'complete'.
C22_ModelCallBudget == modelCalls <= 2

\* C29: while App is shown and neither a request nor a timer is under way,
\* the step is not 'analyzing' or 'generating', the two steps that render a
\* spinner and no control.
C29_NoDeadEndStep ==
    (ui.mounted /\ net = EmptyBag /\ timers = EmptyBag)
    => ui.step \notin {"analyzing", "generating"}

\* C30: at most one request issued by App is under way at any time.
C30_SingleRequestInFlight == BagCardinality(net) <= 1
====
